---------------------------- MODULE Spec2Model ----------------------------
(***************************************************************************)
(* Model of the docQuery callable of functions/index.js: input validation, *)
(* the metadata relevance scorer, the document text fetcher, the token     *)
(* budget truncator, the prompt assembler and the generation client with   *)
(* its auth-strategy / model-candidate fallback matrix.                    *)
(*                                                                         *)
(* Strings are sequences of one-character strings, so that split, trim,    *)
(* toLowerCase, includes, startsWith, substring and length are computed    *)
(* as the JavaScript computes them.                                        *)
(***************************************************************************)
EXTENDS Integers, Sequences, FiniteSets, TLC

(***************************************************************************)
(* JavaScript values and string primitives                                 *)
(***************************************************************************)

\* undefined / null / a missing field; no string has an element of this shape
Undefined == <<"<undefined>">>

\* JavaScript truthiness of a string-or-undefined value
Truthy(v) == v # Undefined /\ v # <<>>

UpperLetters == <<"A","B","C","D","E","F","G","H","I","J","K","L","M",
                  "N","O","P","Q","R","S","T","U","V","W","X","Y","Z">>

LowerLetters == <<"a","b","c","d","e","f","g","h","i","j","k","l","m",
                  "n","o","p","q","r","s","t","u","v","w","x","y","z">>

LowerChar(c) ==
  IF \E i \in 1..26 : UpperLetters[i] = c
  THEN LowerLetters[CHOOSE i \in 1..26 : UpperLetters[i] = c]
  ELSE c

\* String.prototype.toLowerCase
toLowerCase(s) == [i \in 1..Len(s) |-> LowerChar(s[i])]

\* the characters String.prototype.trim removes
WhiteSpace == {" ", "\t", "\n", "\r", "\f"}

\* String.prototype.trim
trim(s) ==
  IF \A i \in 1..Len(s) : s[i] \in WhiteSpace THEN <<>>
  ELSE LET lo == CHOOSE i \in 1..Len(s) :
                   s[i] \notin WhiteSpace
                   /\ \A j \in 1..(i - 1) : s[j] \in WhiteSpace
           hi == CHOOSE i \in 1..Len(s) :
                   s[i] \notin WhiteSpace
                   /\ \A j \in (i + 1)..Len(s) : s[j] \in WhiteSpace
       IN  SubSeq(s, lo, hi)

\* String.prototype.includes
includes(s, k) ==
  \E i \in 0..(Len(s) - Len(k)) : SubSeq(s, i + 1, i + Len(k)) = k

\* String.prototype.startsWith
startsWith(s, k) == Len(s) >= Len(k) /\ SubSeq(s, 1, Len(k)) = k

\* String.prototype.substring(a, b) for 0 <= a, with b clamped to the length
\* and a negative a clamped to 0
substring(s, a, b) ==
  LET lo == IF a < 0 THEN 0 ELSE IF a > Len(s) THEN Len(s) ELSE a
      hi == IF b < 0 THEN 0 ELSE IF b > Len(s) THEN Len(s) ELSE b
  IN  IF lo <= hi THEN SubSeq(s, lo + 1, hi) ELSE SubSeq(s, hi + 1, lo)

RECURSIVE split(_, _)
\* String.prototype.split(sep) for a one-character separator
split(s, sep) ==
  IF \A i \in 1..Len(s) : s[i] # sep
  THEN <<s>>
  ELSE LET i == CHOOSE i \in 1..Len(s) :
                   s[i] = sep /\ \A j \in 1..(i - 1) : s[j] # sep
       IN  <<SubSeq(s, 1, i - 1)>> \o split(SubSeq(s, i + 1, Len(s)), sep)

RECURSIVE join(_, _)
\* Array.prototype.join
join(parts, sep) ==
  IF parts = <<>> THEN <<>>
  ELSE IF Len(parts) = 1 THEN parts[1]
  ELSE parts[1] \o sep \o join(Tail(parts), sep)

(***************************************************************************)
(* Configuration constants                                                 *)
(***************************************************************************)

stopWords ==
  { <<"a">>, <<"a","n">>, <<"a","n","d">>, <<"t","h","e">>, <<"i","n">>,
    <<"o","n">>, <<"o","f">>, <<"f","o","r">>, <<"t","o">>,
    <<"w","i","t","h">>, <<"i","s">>, <<"a","r","e">>, <<"w","a","s">>,
    <<"w","e","r","e">> }

METADATA_FIELDS_TO_SEARCH == <<"Subject", "Notes", "FileName", "From", "To", "CC">>

MAX_CONTEXT_DOCS == 5

MAX_INPUT_TOKENS == 30000

CHARS_PER_TOKEN == 4

RESERVED_TOKENS_FOR_PROMPT == 500

MIN_TOKENS_PER_DOC == 100

(***************************************************************************)
(* Token estimation, metadata header, truncation                           *)
(***************************************************************************)

\* Math.ceil(text.length / CHARS_PER_TOKEN); 0 for the empty string
estimateTokens(text) ==
  IF text = <<>> THEN 0
  ELSE (Len(text) + CHARS_PER_TOKEN - 1) \div CHARS_PER_TOKEN

extractKeyMetadata(doc) ==
  LET part(label, v) == IF Truthy(v) THEN <<label \o v>> ELSE <<>>
      keyInfo ==
        <<(<<"I", "D", ":", " ">> \o doc.id)>>
        \o part(<<"S", "u", "b", "j", "e", "c", "t", ":", " ">>, doc.Subject)
        \o part(<<"F", "r", "o", "m", ":", " ">>, doc.From)
        \o part(<<"T", "o", ":", " ">>, doc.To)
        \o part(<<"D", "a", "t", "e", ":", " ">>, doc.Date)
        \o part(<<"F", "i", "l", "e", "n", "a", "m", "e", ":", " ">>, doc.FileName)
        \o part(<<"N", "o", "t", "e", "s", ":", " ">>, doc.Notes)
  IN  join(keyInfo, <<" ", "|", " ">>)

SizeNotice ==
  <<"[", "T", "e", "x", "t", " ", "t", "r", "u", "n", "c", "a", "t", "e", "d",
    " ", "d", "u", "e", " ", "t", "o", " ", "s", "i", "z", "e", "]">>

MiddleMarker ==
  <<"\n", "\n", "[", ".", ".", ".", " ", "m", "i", "d", "d", "l", "e", " ",
    "c", "o", "n", "t", "e", "n", "t", " ", "t", "r", "u", "n", "c", "a", "t",
    "e", "d", " ", ".", ".", ".", "]", "\n", "\n">>

\* the header the truncator starts from: `[${metadata}]\n\n`
MetadataHeader(doc) == <<"[">> \o extractKeyMetadata(doc) \o <<"]", "\n", "\n">>

\* the truncator with the fit test made strict: a text that fills the
\* remaining budget exactly is cut in the middle
truncateDocumentText_StrictFit(doc, text, maxTokens) ==
  LET result          == MetadataHeader(doc)
      remainingTokens == maxTokens - estimateTokens(result)
      cleanText       == trim(text)
      halfTokens      == remainingTokens \div 2
      startSnippet    == trim(substring(cleanText, 0, halfTokens * CHARS_PER_TOKEN))
      endSnippet      == trim(substring(cleanText,
                                        Len(cleanText) - halfTokens * CHARS_PER_TOKEN,
                                        Len(cleanText)))
  IN  IF remainingTokens < MIN_TOKENS_PER_DOC
      THEN result \o SizeNotice
      ELSE IF estimateTokens(cleanText) < remainingTokens
      THEN result \o cleanText
      ELSE result \o startSnippet \o MiddleMarker \o endSnippet

\* the truncator with the two snippets taken as they are, white space at
\* their ends included
truncateDocumentText_UntrimmedSnippets(doc, text, maxTokens) ==
  LET result          == MetadataHeader(doc)
      remainingTokens == maxTokens - estimateTokens(result)
      cleanText       == trim(text)
      halfTokens      == remainingTokens \div 2
      startSnippet    == substring(cleanText, 0, halfTokens * CHARS_PER_TOKEN)
      endSnippet      == substring(cleanText,
                                   Len(cleanText) - halfTokens * CHARS_PER_TOKEN,
                                   Len(cleanText))
  IN  IF remainingTokens < MIN_TOKENS_PER_DOC
      THEN result \o SizeNotice
      ELSE IF estimateTokens(cleanText) <= remainingTokens
      THEN result \o cleanText
      ELSE result \o startSnippet \o MiddleMarker \o endSnippet

truncateDocumentText(doc, text, maxTokens) ==
  LET result          == MetadataHeader(doc)
      metadataTokens  == estimateTokens(result)
      remainingTokens == maxTokens - metadataTokens
      cleanText       == trim(text)
      totalTextTokens == estimateTokens(cleanText)
      halfTokens      == remainingTokens \div 2
      startChars      == halfTokens * CHARS_PER_TOKEN
      endChars        == halfTokens * CHARS_PER_TOKEN
      startSnippet    == trim(substring(cleanText, 0, startChars))
      endSnippet      == trim(substring(cleanText, Len(cleanText) - endChars,
                                        Len(cleanText)))
  IN  IF remainingTokens < MIN_TOKENS_PER_DOC
      THEN result \o SizeNotice
      ELSE IF totalTextTokens <= remainingTokens
      THEN result \o cleanText
      ELSE result \o startSnippet \o MiddleMarker \o endSnippet

(***************************************************************************)
(* Document text fetcher                                                   *)
(***************************************************************************)

NoTextPathPrefix ==
  <<"[", "N", "o", " ", "t", "e", "x", "t", " ", "p", "a", "t", "h", " ",
    "f", "o", "r", " ">>

ErrorFetchingPrefix ==
  <<"[", "E", "r", "r", "o", "r", " ", "f", "e", "t", "c", "h", "i", "n", "g",
    " ", "t", "e", "x", "t", " ", "f", "o", "r", " ">>

\* the fetcher returning the empty string when the download fails
fetchDocumentText_EmptyOnError(doc, dl) ==
  IF ~Truthy(doc.textStoragePath)
  THEN NoTextPathPrefix \o doc.id \o <<"]">>
  ELSE IF ~dl.ok
  THEN <<>>
  ELSE IF includes(dl.utf16le, <<"e">>) \/ includes(dl.utf16le, <<"t">>)
  THEN dl.utf16le
  ELSE dl.utf8

\* dl is the outcome of fileRef.download(): [ok |-> FALSE] when it throws,
\* otherwise the buffer, given by its two decodings
fetchDocumentText(doc, dl) ==
  IF ~Truthy(doc.textStoragePath)
  THEN NoTextPathPrefix \o doc.id \o <<"]">>
  ELSE IF ~dl.ok
  THEN ErrorFetchingPrefix \o doc.id \o <<"]">>
  ELSE IF includes(dl.utf16le, <<"e">>) \/ includes(dl.utf16le, <<"t">>)
  THEN dl.utf16le
  ELSE dl.utf8

(***************************************************************************)
(* Metadata relevance scorer                                               *)
(***************************************************************************)

\* query.toLowerCase().split(' ').filter(k => k.trim() && !stopWords.has(k))
Keywords(query) ==
  SelectSeq(split(toLowerCase(query), " "),
            LAMBDA k : trim(k) # <<>> /\ k \notin stopWords)

\* keywords.filter(k => value.includes(k)).length
MatchCount(keywords, value) ==
  Len(SelectSeq(keywords, LAMBDA k : includes(value, k)))

\* every field weighted alike
FieldWeight_Flat(field) == 1

\* the weight of one metadata field
FieldWeight(field) == IF field = "Subject" \/ field = "Notes" THEN 3 ELSE 1

\* (doc[field] || '').toLowerCase()
FieldValue(doc, field) ==
  IF Truthy(doc[field]) THEN toLowerCase(doc[field]) ELSE <<>>

RECURSIVE MetadataScore(_, _, _)
\* the loop over METADATA_FIELDS_TO_SEARCH, from field number n on
MetadataScore(doc, keywords, n) ==
  IF n > Len(METADATA_FIELDS_TO_SEARCH) THEN 0
  ELSE MatchCount(keywords, FieldValue(doc, METADATA_FIELDS_TO_SEARCH[n]))
         * FieldWeight(METADATA_FIELDS_TO_SEARCH[n])
       + MetadataScore(doc, keywords, n + 1)

\* the identifier part of the score
IdScore(doc, keywords) == MatchCount(keywords, toLowerCase(doc.id)) * 5

\* the content part without the test that skips bracketed sentinels
ContentScore_NoSentinelCheck(doc, keywords, text) ==
  IF Truthy(doc.textStoragePath) /\ Truthy(text)
  THEN MatchCount(keywords, toLowerCase(text)) * 2
  ELSE 0

\* the content part of the score; text is what fetchDocumentText returned
ContentScore(doc, keywords, text) ==
  IF Truthy(doc.textStoragePath) /\ Truthy(text) /\ ~startsWith(text, <<"[">>)
  THEN MatchCount(keywords, toLowerCase(text)) * 2
  ELSE 0

\* one element of scoredDocs
ScoreDoc(doc, keywords, text) ==
  [doc   |-> doc,
   score |-> IdScore(doc, keywords) + MetadataScore(doc, keywords, 1)
             + ContentScore(doc, keywords, text)]

RECURSIVE sortByScore_TiesReversed(_)
\* an unstable sort: among items of equal score the later one comes first
sortByScore_TiesReversed(items) ==
  IF items = <<>> THEN <<>>
  ELSE LET i == CHOOSE i \in 1..Len(items) :
                  /\ \A j \in 1..Len(items) : items[j].score <= items[i].score
                  /\ \A j \in (i + 1)..Len(items) : items[j].score < items[i].score
       IN  <<items[i]>>
           \o sortByScore_TiesReversed(SubSeq(items, 1, i - 1)
                                       \o SubSeq(items, i + 1, Len(items)))

RECURSIVE sortByScore(_)
\* the list left in enumeration order
sortByScore_Unsorted(items) == items

\* Array.prototype.sort((a, b) => b.score - a.score): stable, descending
sortByScore(items) ==
  IF items = <<>> THEN <<>>
  ELSE LET i == CHOOSE i \in 1..Len(items) :
                  /\ \A j \in 1..Len(items) : items[j].score <= items[i].score
                  /\ \A j \in 1..(i - 1) : items[j].score < items[i].score
       IN  <<items[i]>>
           \o sortByScore(SubSeq(items, 1, i - 1) \o SubSeq(items, i + 1, Len(items)))

\* scoredDocs.filter(item => item.score > 0).sort(...)
MatchedDocs(scoredDocs) ==
  sortByScore(SelectSeq(scoredDocs, LAMBDA item : item.score > 0))

\* matchedDocs.slice(0, MAX_CONTEXT_DOCS)
TopDocs(matchedDocs) ==
  SubSeq(matchedDocs, 1,
         IF Len(matchedDocs) < MAX_CONTEXT_DOCS THEN Len(matchedDocs)
         ELSE MAX_CONTEXT_DOCS)

\* scoredDocs of a document list; txt[i] is the text fetched for document i
\* (read only for a document with a text pointer)
ScoredDocs(kw, docs, txt) ==
  [i \in 1..Len(docs) |-> ScoreDoc(docs[i], kw, txt[i])]

\* the ranking tail of findRelevantDocsByMetadata: filter, sort, slice, map
RankDocs(scoredDocs) ==
  LET top == TopDocs(MatchedDocs(scoredDocs))
  IN  [i \in 1..Len(top) |-> top[i].doc]

\* findRelevantDocsByMetadata as a function of the query, the enumerated
\* documents and the text each scoring fetch returned
findRelevantDocsByMetadata(query, docs, txt) ==
  IF Keywords(query) = <<>> THEN <<>>
  ELSE RankDocs(ScoredDocs(Keywords(query), docs, txt))

(***************************************************************************)
(* Generation client: one attempt                                          *)
(***************************************************************************)

modelCandidates ==
  << <<"g", "o", "o", "g", "l", "e", "a", "i", "/", "g", "e", "m", "i", "n",
       "i", "-", "2", ".", "5", "-", "f", "l", "a", "s", "h">>,
     <<"g", "e", "m", "i", "n", "i", "-", "2", ".", "5", "-", "f", "l", "a",
       "s", "h">> >>

\* modelName.startsWith('gemini')
isGemini(modelName) == startsWith(modelName, <<"g", "e", "m", "i", "n", "i">>)

\* the textual hints of a token-limit failure
TokenHints ==
  { <<"t", "o", "k", "e", "n">>, <<"t", "o", "o", " ", "l", "o", "n", "g">>,
    <<"m", "a", "x">>, <<"l", "i", "m", "i", "t">> }

\* the hint test without the status test
isTokenError_AnyStatus(resp) ==
  \E h \in TokenHints : includes(toLowerCase(resp.body), h)

\* resp.status === 400 && (one of the hints is in the lower-cased body)
isTokenError(resp) ==
  resp.status = 400 /\ \E h \in TokenHints : includes(toLowerCase(resp.body), h)

StatusMessage(status) ==
  CASE status = 400 -> "Generative API returned 400"
    [] status = 404 -> "Generative API returned 404"
    [] status = 429 -> "Generative API returned 429"
    [] OTHER        -> "Generative API returned 500"

\* An error value: message, status (0 when the error carries none) and the
\* isTokenError flag.
Err(message, status, tokenError) ==
  [message |-> message, status |-> status, isTokenError |-> tokenError]

\* tryUrl on the endpoint's reaction resp: [thrown |-> FALSE, payload |-> p]
\* when it returns resp.json(), [thrown |-> TRUE, error |-> e] when it throws
tryUrl(resp) ==
  IF resp.kind = "exception"
  THEN [thrown |-> TRUE, error |-> Err("fetch failed", 0, FALSE)]
  ELSE IF resp.status # 200
  THEN IF isTokenError(resp)
       THEN [thrown |-> TRUE,
             error |-> Err("Request exceeded token limits", resp.status, TRUE)]
       ELSE [thrown |-> TRUE,
             error |-> Err(StatusMessage(resp.status), resp.status, FALSE)]
  ELSE [thrown |-> FALSE, payload |-> resp.payload]

\* the answer taken from whichever of the two fields is present
answerText_Either(modelName, payload) ==
  IF Truthy(payload.text) THEN payload.text ELSE payload.output

\* payload.candidates?.[0]?.content?.parts?.[0]?.text for a gemini model,
\* payload.candidates?.[0]?.output otherwise
answerText(modelName, payload) ==
  IF isGemini(modelName) THEN payload.text ELSE payload.output

\* the attempt without the check of answerText
Attempt_NoShapeCheck(modelName, resp) ==
  LET r == tryUrl(resp)
  IN  IF r.thrown THEN r
      ELSE [thrown |-> FALSE, answer |-> answerText(modelName, r.payload)]

\* the body of the try block around one attempt: the answer, or the error
\* that reaches the attempt's catch clause
Attempt(modelName, resp) ==
  LET r == tryUrl(resp)
  IN  IF r.thrown THEN r
      ELSE IF ~Truthy(answerText(modelName, r.payload))
      THEN [thrown |-> TRUE,
            error |-> Err("Unexpected API response format", 0, FALSE)]
      ELSE [thrown |-> FALSE, answer |-> answerText(modelName, r.payload)]

\* the status compared with the string '404': never equal
Retryable_StringCompare(error) == FALSE

\* the next candidate tried after any error that carries an HTTP status
Retryable_AnyHttpError(error) == error.status # 0

\* e.status === 404 in an attempt's catch clause: try the next candidate
Retryable(error) == error.status = 404

\* the outer catch with the status test ahead of the isTokenError test
ClassifyError_StatusFirst(error) ==
  IF error.status = 400
  THEN [kind |-> "error", code |-> "invalid-argument",
        message |-> <<"Invalid request to AI service: ", error.message>>]
  ELSE IF error.isTokenError
  THEN [kind |-> "error", code |-> "resource-exhausted",
        message |-> <<"Query exceeded token limits", "">>]
  ELSE [kind |-> "error", code |-> "internal",
        message |-> <<"AI processing failed: ", error.message>>]

\* the outer catch with a fixed 'internal' message that drops error.message
ClassifyError_GenericMessage(error) ==
  IF error.isTokenError
  THEN [kind |-> "error", code |-> "resource-exhausted",
        message |-> <<"Query exceeded token limits", "">>]
  ELSE IF error.status = 400
  THEN [kind |-> "error", code |-> "invalid-argument",
        message |-> <<"Invalid request to AI service: ", error.message>>]
  ELSE [kind |-> "error", code |-> "internal",
        message |-> <<"AI processing failed", "">>]

\* the outer catch: the HttpsError thrown to the caller
ClassifyError(error) ==
  IF error.isTokenError
  THEN [kind |-> "error", code |-> "resource-exhausted",
        message |-> <<"Query exceeded token limits", "">>]
  ELSE IF error.status = 400
  THEN [kind |-> "error", code |-> "invalid-argument",
        message |-> <<"Invalid request to AI service: ", error.message>>]
  ELSE [kind |-> "error", code |-> "internal",
        message |-> <<"AI processing failed: ", error.message>>]

\* The URL an attempt posts to: the API version of the auth strategy, the
\* model, the method chosen by isGemini, and whether ?key= is appended.
EndpointUrl(auth, modelName) ==
  [version |-> IF auth = "sa" THEN "v1" ELSE "v1beta",
   model   |-> modelName,
   method  |-> IF isGemini(modelName) THEN "generateContent" ELSE "generateText",
   key     |-> auth = "key"]

(***************************************************************************)
(* Prompt assembler                                                        *)
(***************************************************************************)

\* Math.floor(availableTokens / docsWithText.length)
TokensPerDoc(n) == (MAX_INPUT_TOKENS - RESERVED_TOKENS_FOR_PROMPT) \div n

\* the context block with a bracketed sentinel text left out
ContextPart_SentinelDropped(doc, text, maxTokens) ==
  <<"D", "o", "c", "u", "m", "e", "n", "t", " ">> \o doc.id \o <<":", "\n">>
  \o truncateDocumentText(doc, IF startsWith(text, <<"[">>) THEN <<>> ELSE text,
                          maxTokens)

\* `Document ${doc.id}:\n${truncated}`
ContextPart(doc, text, maxTokens) ==
  <<"D", "o", "c", "u", "m", "e", "n", "t", " ">> \o doc.id \o <<":", "\n">>
  \o truncateDocumentText(doc, text, maxTokens)

\* contextParts for the selected documents and their fetched texts
ContextParts(docs, txt) ==
  [i \in 1..Len(docs) |-> ContextPart(docs[i], txt[i], TokensPerDoc(Len(docs)))]

\* `Based on the following documents, ${query}\n\nContext:\n${context}`
Prompt(query, contextParts) ==
  <<"B", "a", "s", "e", "d", " ", "o", "n", " ", "t", "h", "e", " ", "f", "o",
    "l", "l", "o", "w", "i", "n", "g", " ", "d", "o", "c", "u", "m", "e", "n",
    "t", "s", ",", " ">>
  \o query
  \o <<"\n", "\n", "C", "o", "n", "t", "e", "x", "t", ":", "\n">>
  \o join(contextParts, <<"\n", "\n", "-", "-", "-", "\n", "\n">>)

(***************************************************************************)
(* The environment of one invocation                                       *)
(***************************************************************************)

\* longest query of the handler runs
MaxQueryLen == 2

\* most documents in an enumerated collection of the handler runs
MaxSnapshotDocs == 2

\* all strings over chars of length at most n
StringsUpTo(chars, n) == UNION {[1..k -> chars] : k \in 0..n}

Users == { <<"u", "1">>, <<"u", "2">> }

\* the authenticated caller, when the call carries an identity
Caller == <<"u", "1">>

QueryChars == {"a", "X", " ", "\t"}

\* request.data and request.auth of the invocation
Requests ==
  [query          : {Undefined} \cup StringsUpTo(QueryChars, MaxQueryLen),
   providedUserId : {Undefined, <<>>} \cup Users,
   authUid        : {Undefined, Caller}]

NoFields ==
  [Subject |-> Undefined, Notes |-> Undefined, FileName |-> Undefined,
   From |-> Undefined, To |-> Undefined, CC |-> Undefined, Date |-> Undefined,
   textStoragePath |-> Undefined]

\* a stored record: { id: doc.id, ...doc.data() }
Doc(id, fields) == [f \in {"id"} \cup DOMAIN fields |->
                      IF f = "id" THEN id ELSE fields[f]]

DocA == Doc(<<"X", "1">>, NoFields)

DocB == Doc(<<"d", "2">>,
            [NoFields EXCEPT !.Subject = <<"R", "e", " ", "x">>,
                             !.textStoragePath = <<"p", "2">>])

DocC == Doc(<<"d", "3">>,
            [NoFields EXCEPT !.From = <<"x">>,
                             !.textStoragePath = <<"p", "3">>])

DocUniverse == {DocA, DocB, DocC}

\* the order of two identifiers in the store's enumeration (by document id)
IdBefore(a, b) ==
  LET rank(id) == CHOOSE n \in 1..3 :
                    id = (<< <<"X", "1">>, <<"d", "2">>, <<"d", "3">> >>)[n]
  IN  rank(a) < rank(b)

\* what snapshot.forEach can enumerate: documents with distinct identifiers,
\* in the order of their identifiers
Snapshots ==
  {s \in UNION {[1..k -> DocUniverse] : k \in 0..MaxSnapshotDocs} :
     \A i, j \in 1..Len(s) : i < j => IdBefore(s[i].id, s[j].id)}

\* the object store: the buffer each path holds, by its two decodings
Bucket(path) ==
  IF path = <<"p", "2">>
  THEN [ok |-> TRUE, utf16le |-> <<"?", "?">>,
        utf8 |-> <<"a", "\t", "x", " ", "X">>]
  ELSE [ok |-> TRUE, utf16le |-> <<"[", "x", " ", "t">>, utf8 |-> <<"?">>]

\* fileRef.download() throwing
DownloadFailed == [ok |-> FALSE]

AnswerT == <<"T">>

AnswerO == <<"O">>

\* the shapes of resp.json(): a chat-style payload whose legacy field is
\* empty, and a legacy payload without the chat-style field
Payloads ==
  { [text |-> AnswerT, output |-> <<>>],
    [text |-> Undefined, output |-> AnswerO] }

TokenLimitBody ==
  <<"M", "a", "x", "i", "m", "u", "m", " ", "T", "O", "K", "E", "N", " ",
    "l", "i", "m", "i", "t", " ", "e", "x", "c", "e", "e", "d", "e", "d">>

PlainBody == <<"b", "a", "d", " ", "r", "e", "q", "u", "e", "s", "t">>

NoPayload == [text |-> Undefined, output |-> Undefined]

\* how the generation endpoint can react to one POST
Responses ==
  {[kind |-> "response", status |-> 200, body |-> <<>>, payload |-> p] :
     p \in Payloads}
  \cup
  {[kind |-> "response", status |-> 400, body |-> b, payload |-> NoPayload] :
     b \in {TokenLimitBody, PlainBody}}
  \cup
  {[kind |-> "response", status |-> st, body |-> TokenLimitBody,
    payload |-> NoPayload] : st \in {404, 500}}
  \cup
  {[kind |-> "exception", status |-> 0, body |-> <<>>, payload |-> NoPayload]}

(***************************************************************************)
(* The docQuery handler as a state machine                                 *)
(***************************************************************************)

VARIABLES
  request,       \* request.data.query, request.data.userId, request.auth.uid
  pc,            \* the await the invocation is suspended at, or "done"
  userId,        \* the resolved user scope
  keywords,      \* the query's keywords
  allDocuments,  \* the enumerated collection
  pending,       \* scoring-stage downloads issued and not yet settled
  texts,         \* texts[i]: what fetchDocumentText returned for allDocuments[i]
  relevantDocs,  \* the scorer's result
  ctxPending,    \* context-stage downloads issued and not yet settled
  docTexts,      \* docTexts[i]: the text of docsWithText[i]
  prompt,        \* the assembled prompt
  apiKey,        \* whether GOOGLE_GENAI_API_KEY is set
  modelIdx,      \* the model candidate of the attempt in flight
  saError,       \* the error caught from the service-account strategy
  io,            \* every request issued to a collaborator, in issue order
  received,      \* every reaction of the generation endpoint, in order
  outcome,       \* what the caller gets
  call           \* a single function call checked on its own, or NoCall

vars == <<request, pc, userId, keywords, allDocuments, pending, texts,
          relevantDocs, ctxPending, docTexts, prompt, apiKey, modelIdx,
          saError, io, received, outcome, call>>

scoringVars == <<keywords, allDocuments, pending, texts, relevantDocs>>

contextVars == <<ctxPending, docTexts, prompt>>

genVars == <<apiKey, modelIdx, saError, received>>

NoError == Err("", 0, FALSE)

NoCall == [fn |-> "none"]

\* relevantDocs before findRelevantDocsByMetadata has returned
NotReturned == <<Doc(Undefined, NoFields)>>

Pending == [kind |-> "pending"]

\* the success payload with the sources in reverse order
Success_ReversedSources(answer, sources) ==
  [kind |-> "success", answer |-> answer,
   sources |-> [i \in 1..Len(sources) |-> sources[Len(sources) + 1 - i]]]

Success(answer, sources) ==
  [kind |-> "success", answer |-> answer, sources |-> sources]

\* zero candidates reported as a thrown not-found error
NoRelevantDocs_Thrown ==
  [kind |-> "error", code |-> "not-found",
   message |-> <<"No relevant documents found", "">>]

NoRelevantDocs ==
  Success(<<"N", "o", " ", "r", "e", "l", "e", "v", "a", "n", "t", " ", "d",
            "o", "c", "u", "m", "e", "n", "t", "s", " ", "f", "o", "u", "n",
            "d", " ", "f", "o", "r", " ", "y", "o", "u", "r", " ", "q", "u",
            "e", "r", "y", ".">>, <<>>)

InvalidArgument ==
  [kind |-> "error", code |-> "invalid-argument",
   message |-> <<"Query and userId are required", "">>]

IoEvent(op, stage, target) == [op |-> op, stage |-> stage, target |-> target]

\* a download issued for every document, text pointer or not
Downloads_AllDocs(docs, stage) ==
  [i \in 1..Len(docs) |-> IoEvent("download", stage, docs[i].id)]

\* the downloads a Promise.all over docs issues, in map order
Downloads(docs, stage) ==
  LET withPath == SelectSeq(docs, LAMBDA d : Truthy(d.textStoragePath))
  IN  [i \in 1..Len(withPath) |-> IoEvent("download", stage, withPath[i].id)]

\* the POST addressed to the first model candidate whatever the loop index
PostEvent_FirstModel(auth, idx) == IoEvent("post", auth, modelCandidates[1])

PostEvent(auth, idx) == IoEvent("post", auth, modelCandidates[idx])

Init ==
  /\ request \in Requests
  /\ pc = "invoke"
  /\ userId = Undefined
  /\ keywords = <<>>
  /\ allDocuments = <<>>
  /\ pending = {}
  /\ texts = <<>>
  /\ relevantDocs = NotReturned
  /\ ctxPending = {}
  /\ docTexts = <<>>
  /\ prompt = <<>>
  /\ apiKey = FALSE
  /\ modelIdx = 0
  /\ saError = NoError
  /\ io = <<>>
  /\ received = <<>>
  /\ outcome = Pending
  /\ call = NoCall

\* providedUserId || (request.auth && request.auth.uid) || null
ResolveUserId(req) ==
  IF Truthy(req.providedUserId) THEN req.providedUserId
  ELSE IF Truthy(req.authUid) THEN req.authUid
  ELSE Undefined

\* the validation with && in place of ||
Rejected_And(query, uid) == ~Truthy(query) /\ ~Truthy(uid)

\* !query || !userId
Rejected(query, uid) == ~Truthy(query) \/ ~Truthy(uid)

\* Entry: validation, then findRelevantDocsByMetadata up to docsRef.get();
\* without keywords the scorer returns [] and the handler the fixed answer.
Invoke ==
  /\ pc = "invoke"
  /\ userId' = ResolveUserId(request)
  /\ IF Rejected(request.query, userId')
     THEN /\ outcome' = InvalidArgument
          /\ pc' = "done"
          /\ UNCHANGED <<keywords, relevantDocs, io>>
     ELSE /\ keywords' = Keywords(request.query)
          /\ IF keywords' = <<>>
             THEN /\ relevantDocs' = <<>>
                  /\ outcome' = NoRelevantDocs
                  /\ pc' = "done"
                  /\ io' = io
             ELSE /\ relevantDocs' = relevantDocs
                  /\ outcome' = outcome
                  /\ pc' = "enumerate"
                  /\ io' = Append(io, IoEvent("docs.get", "score", userId'))
  /\ UNCHANGED <<request, allDocuments, pending, texts, call>>
  /\ UNCHANGED <<contextVars, genVars>>

\* docsRef.get() rejects: the outer catch classifies the failure.
EnumerateFailed ==
  /\ pc = "enumerate"
  /\ outcome' = ClassifyError(Err("firestore unavailable", 0, FALSE))
  /\ pc' = "done"
  /\ UNCHANGED <<request, userId, scoringVars, contextVars, genVars, io, call>>

\* docsRef.get() resolves with a snapshot: every document with a text pointer
\* gets its scoring download issued.
Enumerated(snapshot) ==
  /\ pc = "enumerate"
  /\ allDocuments' = snapshot
  /\ pending' = {i \in 1..Len(snapshot) : Truthy(snapshot[i].textStoragePath)}
  /\ texts' = [i \in 1..Len(snapshot) |-> Undefined]
  /\ io' = io \o Downloads(snapshot, "score")
  /\ pc' = "scoring"
  /\ UNCHANGED <<request, userId, keywords, relevantDocs, outcome, call>>
  /\ UNCHANGED <<contextVars, genVars>>

\* One scoring download settles (in any order): fetchDocumentText returns.
ScoringFetched(i, ok) ==
  /\ pc = "scoring"
  /\ i \in pending
  /\ pending' = pending \ {i}
  /\ texts' = [texts EXCEPT ![i] =
        fetchDocumentText(allDocuments[i],
          IF ok THEN Bucket(allDocuments[i].textStoragePath)
          ELSE DownloadFailed)]
  /\ UNCHANGED <<request, pc, userId, keywords, allDocuments, relevantDocs,
                 io, outcome, call>>
  /\ UNCHANGED <<contextVars, genVars>>

\* the text of a selected document that has no text pointer
NoPathTexts(docs) ==
  [i \in 1..Len(docs) |->
     IF Truthy(docs[i].textStoragePath) THEN Undefined
     ELSE fetchDocumentText(docs[i], DownloadFailed)]

\* Promise.all of the scoring stage resolves: rank, then either the fixed
\* answer or the context-stage downloads.
FinishScoring ==
  /\ pc = "scoring"
  /\ pending = {}
  /\ relevantDocs' = RankDocs(ScoredDocs(keywords, allDocuments, texts))
  /\ IF relevantDocs' = <<>>
     THEN /\ outcome' = NoRelevantDocs
          /\ pc' = "done"
          /\ UNCHANGED <<ctxPending, docTexts, io>>
     ELSE /\ outcome' = outcome
          /\ pc' = "context"
          /\ ctxPending' = {i \in 1..Len(relevantDocs') :
                              Truthy(relevantDocs'[i].textStoragePath)}
          /\ docTexts' = NoPathTexts(relevantDocs')
          /\ io' = io \o Downloads(relevantDocs', "context")
  /\ UNCHANGED <<request, userId, keywords, allDocuments, pending, texts,
                 prompt, call>>
  /\ UNCHANGED genVars

\* One context download settles.
ContextFetched(i, ok) ==
  /\ pc = "context"
  /\ i \in ctxPending
  /\ ctxPending' = ctxPending \ {i}
  /\ docTexts' = [docTexts EXCEPT ![i] =
        fetchDocumentText(relevantDocs[i],
          IF ok THEN Bucket(relevantDocs[i].textStoragePath)
          ELSE DownloadFailed)]
  /\ UNCHANGED <<request, pc, userId, scoringVars, prompt, io, outcome, call>>
  /\ UNCHANGED genVars

\* Promise.all of the context stage resolves: budget, truncation, prompt,
\* the API key is read, and the access token is requested.
BuildPrompt(key) ==
  /\ pc = "context"
  /\ ctxPending = {}
  /\ prompt' = Prompt(request.query, ContextParts(relevantDocs, docTexts))
  /\ apiKey' = key
  /\ io' = Append(io, IoEvent("getAccessToken", "sa", <<>>))
  /\ pc' = "sa_token"
  /\ UNCHANGED <<request, userId, scoringVars, ctxPending, docTexts,
                 modelIdx, saError, received, outcome, call>>

\* the catch of the service-account strategy without the test of apiKey:
\* the API-key loop is always started
SaFailed_NoKeyCheck(err, ioNow) ==
  /\ saError' = err
  /\ outcome' = outcome
  /\ pc' = "key_call"
  /\ io' = Append(ioNow, PostEvent("key", 1))
  /\ modelIdx' = 1

\* the catch of the service-account strategy with the API-key loop resumed
\* at the candidate the service-account loop stopped at
SaFailed_ResumesAtIndex(err, ioNow) ==
  /\ saError' = err
  /\ IF ~apiKey
     THEN /\ outcome' = ClassifyError(err)
          /\ pc' = "done"
          /\ io' = ioNow
          /\ modelIdx' = modelIdx
     ELSE /\ outcome' = outcome
          /\ pc' = "key_call"
          /\ modelIdx' = IF modelIdx = 0 THEN 1 ELSE modelIdx
          /\ io' = Append(ioNow, PostEvent("key", modelIdx'))

\* catch (saError): rethrow to the outer catch without an API key, else start
\* the API-key loop with the first model candidate.
\* the fallback skipped for a token-limit failure: the service-account
\* error is surfaced at once even though an API key is configured
SaFailed_TokenLimitFinal(err, ioNow) ==
  /\ saError' = err
  /\ IF ~apiKey \/ err.isTokenError
     THEN /\ outcome' = ClassifyError(err)
          /\ pc' = "done"
          /\ io' = ioNow
          /\ modelIdx' = modelIdx
     ELSE /\ outcome' = outcome
          /\ pc' = "key_call"
          /\ io' = Append(ioNow, PostEvent("key", 1))
          /\ modelIdx' = 1

SaFailed(err, ioNow) ==
  /\ saError' = err
  /\ IF ~apiKey
     THEN /\ outcome' = ClassifyError(err)
          /\ pc' = "done"
          /\ io' = ioNow
          /\ modelIdx' = modelIdx
     ELSE /\ outcome' = outcome
          /\ pc' = "key_call"
          /\ io' = Append(ioNow, PostEvent("key", 1))
          /\ modelIdx' = 1

\* auth.getClient() / getAccessToken() settle: a token, no token, or a throw.
TokenResult(r) ==
  /\ pc = "sa_token"
  /\ IF r = "token"
     THEN /\ pc' = "sa_call"
          /\ modelIdx' = 1
          /\ io' = Append(io, PostEvent("sa", 1))
          /\ UNCHANGED <<saError, outcome>>
     ELSE SaFailed(IF r = "none"
                   THEN Err("Could not obtain access token from metadata", 0, FALSE)
                   ELSE Err("getClient failed", 0, FALSE), io)
  /\ UNCHANGED <<request, userId, scoringVars, contextVars, apiKey, received,
                 call>>

\* The endpoint reacts to the service-account attempt in flight.
SaResponse(resp) ==
  /\ pc = "sa_call"
  /\ received' = Append(received, [auth |-> "sa", model |-> modelIdx, resp |-> resp])
  /\ LET a == Attempt(modelCandidates[modelIdx], resp)
     IN  IF ~a.thrown
         THEN /\ outcome' = Success(a.answer, relevantDocs)
              /\ pc' = "done"
              /\ UNCHANGED <<modelIdx, saError, io>>
         ELSE IF Retryable(a.error)
         THEN IF modelIdx < Len(modelCandidates)
              THEN /\ modelIdx' = modelIdx + 1
                   /\ io' = Append(io, PostEvent("sa", modelIdx + 1))
                   /\ UNCHANGED <<pc, saError, outcome>>
              ELSE SaFailed(Err("No compatible Generative API endpoint found",
                                0, FALSE), io)
         ELSE SaFailed(a.error, io)
  /\ UNCHANGED <<request, userId, scoringVars, contextVars, apiKey, call>>

\* The endpoint reacts to the API-key attempt in flight.
KeyResponse(resp) ==
  /\ pc = "key_call"
  /\ received' = Append(received, [auth |-> "key", model |-> modelIdx, resp |-> resp])
  /\ LET a == Attempt(modelCandidates[modelIdx], resp)
     IN  IF ~a.thrown
         THEN /\ outcome' = Success(a.answer, relevantDocs)
              /\ pc' = "done"
              /\ UNCHANGED <<modelIdx, io>>
         ELSE IF Retryable(a.error)
         THEN IF modelIdx < Len(modelCandidates)
              THEN /\ modelIdx' = modelIdx + 1
                   /\ io' = Append(io, PostEvent("key", modelIdx + 1))
                   /\ UNCHANGED <<pc, outcome>>
              ELSE /\ outcome' = ClassifyError(
                        Err("No compatible Generative API endpoint found with API key",
                            0, FALSE))
                   /\ pc' = "done"
                   /\ UNCHANGED <<modelIdx, io>>
         ELSE /\ outcome' = ClassifyError(a.error)
              /\ pc' = "done"
              /\ UNCHANGED <<modelIdx, io>>
  /\ UNCHANGED <<request, userId, scoringVars, contextVars, apiKey, saError,
                 call>>

Next ==
  \/ Invoke
  \/ EnumerateFailed
  \/ \E snapshot \in Snapshots : Enumerated(snapshot)
  \/ \E i \in pending, ok \in BOOLEAN : ScoringFetched(i, ok)
  \/ FinishScoring
  \/ \E i \in ctxPending, ok \in BOOLEAN : ContextFetched(i, ok)
  \/ \E key \in BOOLEAN : BuildPrompt(key)
  \/ \E r \in {"token", "none", "throws"} : TokenResult(r)
  \/ \E resp \in Responses : SaResponse(resp)
  \/ \E resp \in Responses : KeyResponse(resp)

Spec == Init /\ [][Next]_vars

\* Every await of the handler is on a promise of a collaborator (the
\* document store, the object store, the token service, the endpoint); with
\* each of them settling, a step that is possible is eventually taken.
FairSpec == Spec /\ WF_vars(Next)

(***************************************************************************)
(* The scorer and the truncator called on their own                        *)
(***************************************************************************)

\* most tokens of a query handed to the scorer on its own
MaxQueryTokens == 2

\* most documents handed to the scorer on its own
MaxScoredDocs == 6

\* longest text handed to the truncator on its own
MaxTextChars == 640

Vocabulary == { <<"x">>, <<"y">> }

\* queries of one to MaxQueryTokens words separated by single spaces
TokenQueries ==
  {join(ts, <<" ">>) :
     ts \in UNION {[1..k -> Vocabulary] : k \in 1..MaxQueryTokens}}

Digit(i) == <<(<<"1", "2", "3", "4", "5", "6", "7", "8", "9">>)[i]>>

\* the i-th document of an enumeration, of one of three kinds: matched on
\* its identifier, matched on Subject and content, matched on From with a
\* text pointer whose download fails
KindDoc(i, kind) ==
  CASE kind = "id"      -> Doc(<<"x">> \o Digit(i), NoFields)
    [] kind = "content" ->
         Doc(<<"d">> \o Digit(i),
             [NoFields EXCEPT !.Subject = <<"X", " ", "y">>,
                              !.textStoragePath = <<"p">> \o Digit(i)])
    [] OTHER            ->
         Doc(<<"d">> \o Digit(i),
             [NoFields EXCEPT !.From = <<"y">>,
                              !.textStoragePath = <<"p">> \o Digit(i)])

\* what the scoring fetch of such a document returns
KindText(i, kind) ==
  fetchDocumentText(KindDoc(i, kind),
    IF kind = "content"
    THEN [ok |-> TRUE, utf16le |-> <<"?">>, utf8 |-> <<"x", " ", "z">>]
    ELSE DownloadFailed)

DocKinds == {"id", "content", "failing"}

KindLists == UNION {[1..k -> DocKinds] : k \in 0..MaxScoredDocs}

ScorerCalls ==
  {[fn |-> "findRelevantDocsByMetadata", returned |-> FALSE, result |-> <<>>,
    query |-> q,
    docs  |-> [i \in 1..Len(ks) |-> KindDoc(i, ks[i])],
    texts |-> [i \in 1..Len(ks) |-> KindText(i, ks[i])]] :
     q \in TokenQueries, ks \in KindLists}

\* the worked example: query "contract renewal" over a document whose
\* Subject is "Renewal Contract Draft" and a document matching nowhere
ExampleQuery ==
  <<"c", "o", "n", "t", "r", "a", "c", "t", " ", "r", "e", "n", "e", "w",
  "a", "l">>

ExampleDocA ==
  Doc(<<"a", "1">>,
      [NoFields EXCEPT !.Subject =
         <<"R", "e", "n", "e", "w", "a", "l", " ", "C", "o", "n", "t", "r",
         "a", "c", "t", " ", "D", "r", "a", "f", "t">>])

ExampleDocB ==
  Doc(<<"b", "2">>, [NoFields EXCEPT !.Subject = <<"L", "u", "n", "c", "h">>])

ExampleCalls ==
  {[fn |-> "findRelevantDocsByMetadata", returned |-> FALSE, result |-> <<>>,
    query |-> ExampleQuery,
    docs  |-> ds,
    texts |-> [i \in 1..Len(ds) |-> fetchDocumentText(ds[i], DownloadFailed)]] :
     ds \in {<<ExampleDocA, ExampleDocB>>, <<ExampleDocB, ExampleDocA>>}}

\* a string of n copies of the character c
Fill(n, c) == [i \in 1..n |-> c]

\* a text of n characters: solid, or with white space at both ends and at
\* every fifth character, or with the words of the middle marker in it
\* from the second character on
TextOf(n, pattern) ==
  [i \in 1..n |->
     IF pattern = "spaced" /\ (i = 1 \/ i = n \/ i % 5 = 0) THEN " "
     ELSE IF pattern = "marked" /\ i \in 2..(Len(MiddleMarker) + 1)
     THEN MiddleMarker[i - 1]
     ELSE "c"]

\* a document whose Notes field has n characters (absent for n = 0)
NotesDoc(n) ==
  Doc(<<"d", "1">>,
      [NoFields EXCEPT !.Notes = IF n = 0 THEN Undefined ELSE Fill(n, "n")])

TruncatorCalls ==
  {[fn |-> "truncateDocumentText", returned |-> FALSE, result |-> <<>>,
    doc |-> NotesDoc(n), text |-> TextOf(len, pat), maxTokens |-> m] :
     n \in {0, 40, 800}, len \in 0..MaxTextChars, pat \in {"solid", "spaced"},
     m \in {MIN_TOKENS_PER_DOC + b : b \in {0, 3, 4, 50}}}
  \cup
  {[fn |-> "truncateDocumentText", returned |-> FALSE, result |-> <<>>,
    doc |-> NotesDoc(0), text |-> TextOf(MaxTextChars, "marked"),
    maxTokens |-> MIN_TOKENS_PER_DOC + 50]}

\* the handler's variables while no invocation runs
Idle ==
  /\ request = [query |-> Undefined, providedUserId |-> Undefined,
                authUid |-> Undefined]
  /\ pc = "idle"
  /\ userId = Undefined
  /\ keywords = <<>>
  /\ allDocuments = <<>>
  /\ pending = {}
  /\ texts = <<>>
  /\ relevantDocs = NotReturned
  /\ ctxPending = {}
  /\ docTexts = <<>>
  /\ prompt = <<>>
  /\ apiKey = FALSE
  /\ modelIdx = 0
  /\ saError = NoError
  /\ io = <<>>
  /\ received = <<>>
  /\ outcome = Pending

handlerVars == <<request, pc, userId, keywords, allDocuments, pending, texts,
                 relevantDocs, ctxPending, docTexts, prompt, apiKey, modelIdx,
                 saError, io, received, outcome>>

InitScorer == Idle /\ call \in ScorerCalls \cup ExampleCalls

\* findRelevantDocsByMetadata runs to its return.
CallScorer ==
  /\ call.fn = "findRelevantDocsByMetadata"
  /\ ~call.returned
  /\ call' = [call EXCEPT
                !.returned = TRUE,
                !.result = findRelevantDocsByMetadata(call.query, call.docs,
                                                      call.texts)]
  /\ UNCHANGED handlerVars

NextScorer == CallScorer

SpecScorer == InitScorer /\ [][NextScorer]_vars

InitTruncator == Idle /\ call \in TruncatorCalls

\* truncateDocumentText runs to its return.
CallTruncator ==
  /\ call.fn = "truncateDocumentText"
  /\ ~call.returned
  /\ call' = [call EXCEPT
                !.returned = TRUE,
                !.result = truncateDocumentText(call.doc, call.text,
                                                call.maxTokens)]
  /\ UNCHANGED handlerVars

NextTruncator == CallTruncator

SpecTruncator == InitTruncator /\ [][NextTruncator]_vars

(***************************************************************************)
(* Selection and prompt assembly called on their own: docQuery from the    *)
(* scorer call to the prompt, as a function of the query, the enumerated   *)
(* documents and what the scoring and context fetches returned             *)
(***************************************************************************)

\* most documents enumerated for a prompt assembly on its own
MaxPromptDocs == 5

PromptQueries == { <<"y">>, <<"y", " ", "t", "e", "x", "t">>, <<"e", "r", "r", "o", "r", " ", "x">> }

\* a document whose Date field (part of the metadata header, not searched
\* by the scorer) alone fills a fifth of the context budget; matched on
\* From, with a text pointer whose download fails
BulkyDoc(i) ==
  Doc(<<"d">> \o Digit(i),
      [NoFields EXCEPT !.From = <<"y">>,
                       !.Date = Fill(24000, "n"),
                       !.textStoragePath = <<"p">> \o Digit(i)])

PromptDoc(i, kind) == IF kind = "bulky" THEN BulkyDoc(i) ELSE KindDoc(i, kind)

\* what the context fetch of such a document returns: the same as the
\* scoring fetch, or the error sentinel when the second download fails
ContextText(i, kind, ok) ==
  fetchDocumentText(PromptDoc(i, kind),
    IF kind \in {"content", "bulky"} /\ ok
    THEN [ok |-> TRUE, utf16le |-> <<"?">>, utf8 |-> <<"x", " ", "z">>]
    ELSE DownloadFailed)

PromptKindLists ==
  UNION {[1..k -> DocKinds] : k \in 0..MaxPromptDocs}

\* five selected documents with one bulky one among them
OneBulky == <<"content", "bulky", "failing", "content", "failing">>

\* five selected documents, all bulky
AllBulky == <<"bulky", "bulky", "bulky", "bulky", "bulky">>

\* the enumerated documents of a call, one per kind
PromptDocs(ks) == [i \in 1..Len(ks) |-> PromptDoc(i, ks[i])]

\* what the scoring fetches of a call return
ScoringTexts(ks) ==
  [i \in 1..Len(ks) |->
     fetchDocumentText(PromptDoc(i, ks[i]),
       IF ks[i] = "content"
       THEN [ok |-> TRUE, utf16le |-> <<"?">>, utf8 |-> <<"x", " ", "z">>]
       ELSE DownloadFailed)]

\* what the context fetches of a call return
ContextTexts(ks, ok) == [i \in 1..Len(ks) |-> ContextText(i, ks[i], ok)]

\* a call is given by the query, the kinds of the enumerated documents and
\* whether the context downloads succeed; sources holds the identifiers of
\* the returned sources
PromptCall(q, ks, ok) ==
  [fn |-> "assemblePrompt", returned |-> FALSE,
   query |-> q, kinds |-> ks, ok |-> ok,
   sources |-> <<>>, parts |-> <<>>, prompt |-> <<>>]

PromptCalls ==
  {PromptCall(q, ks, ok) :
     q \in PromptQueries, ks \in PromptKindLists, ok \in BOOLEAN}
  \cup
  {PromptCall(<<"y", " ", "t", "e", "x", "t">>, OneBulky, FALSE),
   PromptCall(<<"y", " ", "t", "e", "x", "t">>, AllBulky, TRUE)}

\* the position of a selected document in the enumeration
IndexOf(docs, d) == CHOOSE i \in 1..Len(docs) : docs[i] = d

InitPrompt == Idle /\ call \in PromptCalls

\* docQuery from findRelevantDocsByMetadata to the prompt: selection, the
\* context texts of the selected documents, truncation, assembly.
CallAssemblePrompt ==
  /\ call.fn = "assemblePrompt"
  /\ ~call.returned
  /\ LET docs     == PromptDocs(call.kinds)
         relevant == findRelevantDocsByMetadata(call.query, docs,
                                                ScoringTexts(call.kinds))
         docsText == [j \in 1..Len(relevant) |->
                        ContextTexts(call.kinds, call.ok)[IndexOf(docs, relevant[j])]]
         parts    == ContextParts(relevant, docsText)
     IN  call' = [call EXCEPT
                    !.returned = TRUE,
                    !.sources  = [j \in 1..Len(relevant) |-> relevant[j].id],
                    !.parts    = IF relevant = <<>> THEN <<>> ELSE parts,
                    !.prompt   = IF relevant = <<>> THEN <<>>
                                 ELSE Prompt(call.query, parts)]
  /\ UNCHANGED handlerVars

NextPrompt == CallAssemblePrompt

SpecPrompt == InitPrompt /\ [][NextPrompt]_vars

(***************************************************************************)
(* Properties of the handler                                               *)
(***************************************************************************)

Last(seq) == seq[Len(seq)]

FixedAnswer ==
  <<"N", "o", " ", "r", "e", "l", "e", "v", "a", "n", "t", " ", "d", "o", "c",
    "u", "m", "e", "n", "t", "s", " ", "f", "o", "u", "n", "d", " ", "f", "o",
    "r", " ", "y", "o", "u", "r", " ", "q", "u", "e", "r", "y", ".">>

\* the request lacks a query, or no user identity can be resolved from it
InvalidRequest ==
  \/ ~Truthy(request.query)
  \/ (~Truthy(request.providedUserId) /\ ~Truthy(request.authUid))

\* C1: an invocation whose query is missing or empty, or for which neither
\* data.userId nor the caller's auth uid gives an identity, ends with an
\* 'invalid-argument' error, and no request to the document store, the
\* object store, the token service or the generation endpoint was issued.
C1_RejectedBeforeIO ==
  InvalidRequest =>
    /\ io = <<>>
    /\ received = <<>>
    /\ pc \in {"invoke", "done"}
    /\ pc = "done" => outcome.kind = "error" /\ outcome.code = "invalid-argument"

C1_Witness ==
  /\ pc = "done"
  /\ Truthy(request.query)
  /\ ~Truthy(request.providedUserId) /\ ~Truthy(request.authUid)
  /\ outcome.kind = "error"
  /\ outcome.code = "invalid-argument"

\* C2: the user scope whose documents are enumerated is always the
\* authenticated identity of the caller.
C2_ScopeIsCaller ==
  \A k \in 1..Len(io) :
    io[k].op = "docs.get" =>
      Truthy(request.authUid) /\ io[k].target = request.authUid

\* C3: whenever the scorer returns zero candidates the invocation ends as a
\* success with the fixed answer and an empty source list, and no context
\* (top-K) download, no access-token request and no generation attempt
\* happened.
C3_NoCandidatesFixedAnswer ==
  relevantDocs = <<>> =>
    /\ pc = "done"
    /\ outcome.kind = "success"
    /\ outcome.answer = FixedAnswer
    /\ outcome.sources = <<>>
    /\ received = <<>>
    /\ \A k \in 1..Len(io) :
         io[k].stage # "context" /\ io[k].op \notin {"getAccessToken", "post"}

C3_Witness ==
  /\ relevantDocs = <<>>
  /\ pc = "done"
  /\ Len(allDocuments) > 0
  /\ \E k \in 1..Len(io) : io[k].op = "download" /\ io[k].stage = "score"
  /\ outcome.kind = "success"

\* C4: a finished invocation has exactly one of two outcomes: a success
\* payload with a non-empty answer and a source list, or an error whose code
\* is invalid-argument, resource-exhausted or internal; an unfinished one
\* has none; and a success after a generation attempt rests on a 200
\* response carrying the answer.
C4_ClassifiedOutcome ==
  /\ pc # "done" => outcome = Pending
  /\ pc = "done" =>
       \/ /\ outcome.kind = "success"
          /\ Truthy(outcome.answer)
          /\ relevantDocs # NotReturned
          /\ outcome.sources \in {<<>>, relevantDocs}
          /\ received # <<>> =>
               /\ Last(received).resp.kind = "response"
               /\ Last(received).resp.status = 200
               /\ outcome.answer \in {AnswerT, AnswerO}
       \/ /\ outcome.kind = "error"
          /\ outcome.code \in {"invalid-argument", "resource-exhausted", "internal"}

C4_Witness ==
  /\ pc = "done"
  /\ outcome.kind = "error"
  /\ outcome.code = "internal"
  /\ Len(received) = 2 * Len(modelCandidates)

\* a 400 response whose body carries a token-limit hint
TokenLimitResponse(resp) == resp.kind = "response" /\ isTokenError(resp)

\* C5 (as stated): whenever the endpoint answered 400 with a token-limit
\* hint, under either auth strategy and with or without an API key, the
\* caller gets 'resource-exhausted'.
C5_AnyTokenLimitSurfaced ==
  (pc = "done" /\ \E k \in 1..Len(received) : TokenLimitResponse(received[k].resp))
    => outcome.kind = "error" /\ outcome.code = "resource-exhausted"

\* C5 (amended): a token-limit 400 answered to an API-key attempt, or to a
\* service-account attempt while no API key is configured, is the last
\* response and the caller gets 'resource-exhausted'; answered to a
\* service-account attempt while an API key is configured, it is followed by
\* the first API-key attempt.
C5_TokenLimitSurfaced ==
  pc = "done" =>
    \A k \in 1..Len(received) :
      TokenLimitResponse(received[k].resp) =>
        IF received[k].auth = "key" \/ ~apiKey
        THEN /\ k = Len(received)
             /\ outcome.kind = "error"
             /\ outcome.code = "resource-exhausted"
        ELSE /\ k < Len(received)
             /\ received[k + 1].auth = "key"
             /\ received[k + 1].model = 1

C5_Witness ==
  /\ pc = "done"
  /\ received # <<>>
  /\ Last(received).auth = "key"
  /\ TokenLimitResponse(Last(received).resp)
  /\ outcome.kind = "error"
  /\ outcome.code = "resource-exhausted"

\* the POSTs issued under one auth strategy, in issue order
Posts(auth) == SelectSeq(io, LAMBDA e : e.op = "post" /\ e.stage = auth)

\* a 200 response carrying the answer field of the model it was asked of
AnswerResponse(r) ==
  /\ r.resp.kind = "response"
  /\ r.resp.status = 200
  /\ Truthy(IF r.model = 2 THEN r.resp.payload.text ELSE r.resp.payload.output)

\* C6: a 404 for a model candidate that is not the last one makes the client
\* issue the next candidate under the same auth strategy; if that candidate
\* answers, the invocation succeeds with that candidate's answer, and no
\* attempt under the other strategy follows.
C6_NotFoundTriesNext ==
  \A k \in 1..Len(received) :
    LET r == received[k]
    IN  (r.resp.status = 404 /\ r.model < Len(modelCandidates)) =>
          /\ Len(Posts(r.auth)) = r.model + 1
          /\ Posts(r.auth)[r.model + 1].target = modelCandidates[r.model + 1]
          /\ k < Len(received) =>
               /\ received[k + 1].auth = r.auth
               /\ received[k + 1].model = r.model + 1
          /\ (k + 1 = Len(received) /\ AnswerResponse(received[k + 1])) =>
               /\ pc = "done"
               /\ outcome.kind = "success"
               /\ outcome.answer = received[k + 1].resp.payload.text
               /\ outcome.sources = relevantDocs
               /\ Last(io) = IoEvent("post", r.auth, modelCandidates[r.model + 1])
               /\ r.auth = "sa" => Posts("key") = <<>>

C6_Witness ==
  /\ pc = "done"
  /\ Len(received) = 2
  /\ received[1].auth = "sa"
  /\ received[1].resp.status = 404
  /\ AnswerResponse(received[2])
  /\ outcome.kind = "success"
  /\ outcome.answer = AnswerT

\* the maximal runs of non-white-space characters of s are all stop words
\* once lower-cased (none at all for a string of white space)
OnlyStopWordsOrWhiteSpace(s) ==
  \A i, j \in 1..Len(s) :
    ( /\ i <= j
      /\ \A k \in i..j : s[k] \notin WhiteSpace
      /\ (i = 1 \/ s[i - 1] \in WhiteSpace)
      /\ (j = Len(s) \/ s[j + 1] \in WhiteSpace) )
    => toLowerCase(SubSeq(s, i, j)) \in stopWords

\* C7: for a query consisting only of stop words or white space (tabs and
\* newlines included), the scorer returns an empty list without enumerating
\* the document store, and the handler returns the fixed answer.
C7_StopWordQueryShortCircuits ==
  ( /\ ~InvalidRequest
    /\ OnlyStopWordsOrWhiteSpace(request.query)
    /\ pc # "invoke" )
  => /\ keywords = <<>>
     /\ io = <<>>
     /\ pc = "done"
     /\ relevantDocs = <<>>
     /\ outcome.kind = "success"
     /\ outcome.answer = FixedAnswer

\* the scoring fetch of document i has settled with the failure sentinel
ScoringFetchFailed(i) ==
  /\ pc \notin {"invoke", "enumerate"}
  /\ i \in 1..Len(allDocuments)
  /\ Truthy(allDocuments[i].textStoragePath)
  /\ i \notin pending
  /\ texts[i] = ErrorFetchingPrefix \o allDocuments[i].id \o <<"]">>

\* C9: when the scoring fetch of a document fails, that document's score is
\* its identifier score plus its metadata score, every other document's
\* score is what it is with that fetch succeeding, and scoring completes:
\* the ranking over all documents is what the scorer returns and the
\* invocation goes on to the context stage or the fixed answer.
C9_FetchFailureIsolated ==
  \A i \in 1..Len(allDocuments) :
    ScoringFetchFailed(i) =>
      /\ ScoreDoc(allDocuments[i], keywords, texts[i]).score
           = IdScore(allDocuments[i], keywords)
             + MetadataScore(allDocuments[i], keywords, 1)
      /\ \A j \in 1..Len(allDocuments) :
           (j # i /\ j \notin pending) =>
             ScoredDocs(keywords, allDocuments, texts)[j].score
               = ScoredDocs(keywords, allDocuments,
                   [texts EXCEPT ![i] =
                      fetchDocumentText(allDocuments[i],
                        Bucket(allDocuments[i].textStoragePath))])[j].score
      /\ pc # "scoring" =>
           /\ relevantDocs = RankDocs(ScoredDocs(keywords, allDocuments, texts))
           /\ (pc = "done" /\ received = <<>> /\ saError = NoError) =>
                (outcome.kind = "success" /\ relevantDocs = <<>>)

C9_Witness ==
  /\ pc = "context"
  /\ keywords = << <<"x">> >>
  /\ Len(allDocuments) = 2
  /\ ScoringFetchFailed(1)
  /\ ~ScoringFetchFailed(2)
  /\ Len(relevantDocs) = 2

(***************************************************************************)
(* Properties of the scorer and the truncator called on their own          *)
(***************************************************************************)

\* the score the scorer computes for document i of a call
ScoreIn(c, i) == ScoreDoc(c.docs[i], Keywords(c.query), c.texts[i]).score

\* the score of a returned document
ScoreOfDoc(c, d) == ScoreIn(c, CHOOSE i \in 1..Len(c.docs) : c.docs[i] = d)

\* C8: the list the scorer returns has at most 5 documents, is sorted by
\* non-increasing score, and no document left out of it has a strictly
\* higher score than a document in it.
C8_TopFiveSorted ==
  (call.fn = "findRelevantDocsByMetadata" /\ call.returned) =>
    LET res == call.result
    IN  /\ Len(res) <= 5
        /\ \A k \in 1..Len(res) : \E i \in 1..Len(call.docs) : call.docs[i] = res[k]
        /\ \A k, l \in 1..Len(res) :
             k < l => ScoreOfDoc(call, res[k]) >= ScoreOfDoc(call, res[l])
        /\ \A i \in 1..Len(call.docs) :
             (\A k \in 1..Len(res) : res[k] # call.docs[i]) =>
               \A k \in 1..Len(res) : ScoreIn(call, i) <= ScoreOfDoc(call, res[k])

C8_Witness ==
  /\ call.fn = "findRelevantDocsByMetadata"
  /\ call.returned
  /\ Len(call.docs) = 6
  /\ Len(call.result) = 5
  /\ \A i \in 1..Len(call.docs) : ScoreIn(call, i) > 0
  /\ ScoreOfDoc(call, call.result[1]) > ScoreOfDoc(call, call.result[5])
  /\ ScoreIn(call, 1) < ScoreIn(call, 6)

\* C10: the estimated token count of the block truncateDocumentText returns
\* is at most maxTokens, up to a slack of 10 tokens.
C10_OutputWithinBudget ==
  (call.fn = "truncateDocumentText" /\ call.returned) =>
    estimateTokens(call.result) <= call.maxTokens + 10

\* k occurs in s (String.prototype.includes, with the first character of k
\* compared before the rest)
Occurs(s, k) ==
  \E i \in 0..(Len(s) - Len(k)) :
    s[i + 1] = k[1] /\ SubSeq(s, i + 1, i + Len(k)) = k

\* C11 (as stated): a text whose estimated token count is at most maxTokens
\* comes back as the metadata header followed by the text unmodified, with
\* neither the middle marker nor the size notice in the output.
C11_TextWithinBudgetKept ==
  ( /\ call.fn = "truncateDocumentText"
    /\ call.returned
    /\ estimateTokens(call.text) <= call.maxTokens )
  => /\ call.result = MetadataHeader(call.doc) \o call.text
     /\ ~Occurs(call.result, MiddleMarker)
     /\ ~Occurs(call.result, SizeNotice)

\* what the budget leaves for the text once the metadata header is counted
RemainingTokens(c) == c.maxTokens - estimateTokens(MetadataHeader(c.doc))

\* C11 (amended): when the budget left after the metadata header is at
\* least MIN_TOKENS_PER_DOC and the trimmed text's estimated token count is
\* at most that remainder, the result is the header followed by the trimmed
\* text, and neither the middle marker nor the size notice is in it.
C11_FittingTextKept ==
  ( /\ call.fn = "truncateDocumentText"
    /\ call.returned
    /\ RemainingTokens(call) >= MIN_TOKENS_PER_DOC
    /\ estimateTokens(trim(call.text)) <= RemainingTokens(call) )
  => /\ call.result = MetadataHeader(call.doc) \o trim(call.text)
     /\ ~Occurs(call.result, MiddleMarker)
     /\ ~Occurs(call.result, SizeNotice)

C11_Witness ==
  /\ call.fn = "truncateDocumentText"
  /\ call.returned
  /\ RemainingTokens(call) >= MIN_TOKENS_PER_DOC
  /\ estimateTokens(trim(call.text)) = RemainingTokens(call)
  /\ Len(trim(call.text)) < Len(call.text)
  /\ call.result = MetadataHeader(call.doc) \o trim(call.text)

(***************************************************************************)
(* Properties of the generation client                                     *)
(***************************************************************************)

\* the positions of io that are POSTs to the generation endpoint
PostIndexes == {k \in 1..Len(io) : io[k].op = "post"}

\* C12 (safety part): no (auth strategy, model) pair is posted to twice, at
\* most 4 POSTs are issued, and once every POST issued has been answered the
\* invocation has returned or thrown.
C12_BoundedAttempts ==
  /\ \A k, l \in PostIndexes :
       k # l => <<io[k].stage, io[k].target>> # <<io[l].stage, io[l].target>>
  /\ Cardinality(PostIndexes) <= 4
  /\ Len(received) <= Cardinality(PostIndexes)
  /\ (PostIndexes # {} /\ Len(received) = Cardinality(PostIndexes))
       => pc = "done"

\* C12: the generation client performs no retries beyond the fallback
\* matrix and always terminates: each (auth strategy, model) pair is
\* attempted at most once, at most 2 x 2 = 4 endpoint calls are made, after
\* the last attempt the invocation returns or throws, and every invocation
\* eventually ends.
C12_NoRetriesTerminates == []C12_BoundedAttempts /\ <>(pc = "done")

C12_Witness ==
  /\ pc = "done"
  /\ Len(Posts("sa")) = 2
  /\ Len(Posts("key")) = 2
  /\ Len(received) = 4
  /\ outcome.kind = "success"

(***************************************************************************)
(* Properties of the score                                                 *)
(***************************************************************************)

\* how many of the call's query tokens, repeated ones counted each time,
\* are substrings of the lower-cased value
TokenHits(c, value) ==
  Cardinality({k \in 1..Len(Keywords(c.query)) :
                 includes(toLowerCase(value), Keywords(c.query)[k])})

\* how many distinct query tokens are substrings of the lower-cased value
DistinctTokenHits(c, value) ==
  Cardinality({t \in {Keywords(c.query)[k] : k \in 1..Len(Keywords(c.query))} :
                 includes(toLowerCase(value), t)})

\* the value of a field, a missing one counting as the empty string
FieldOrEmpty(v) == IF Truthy(v) THEN v ELSE <<>>

\* the weighted field part of the stated formula
WeightedFieldHits(c, d) ==
  3 * TokenHits(c, FieldOrEmpty(d.Subject))
  + 3 * TokenHits(c, FieldOrEmpty(d.Notes))
  + TokenHits(c, FieldOrEmpty(d.FileName))
  + TokenHits(c, FieldOrEmpty(d.From))
  + TokenHits(c, FieldOrEmpty(d.To))
  + TokenHits(c, FieldOrEmpty(d.CC))

\* the metadata part of the score the scorer computes for document i
MetadataPart(c, i) ==
  ScoreIn(c, i) - ContentScore(c.docs[i], Keywords(c.query), c.texts[i])

\* documents scoring 0 are left out, and the worked example returns only
\* the document with the matching Subject, which scores 6
ZeroExcludedAndExample(c) ==
  /\ \A i \in 1..Len(c.docs) :
       ScoreIn(c, i) = 0 => \A k \in 1..Len(c.result) : c.result[k] # c.docs[i]
  /\ c.query = ExampleQuery =>
       /\ c.result = <<ExampleDocA>>
       /\ ScoreOfDoc(c, ExampleDocA) = 6
       /\ ScoreOfDoc(c, ExampleDocB) = 0

\* C13 (as stated): the metadata part of a document's score is 5 x the
\* number of distinct query tokens in the lower-cased identifier plus the
\* weighted field hits (3 for Subject and Notes, 1 otherwise, missing
\* fields empty); "contract renewal" scores Subject "Renewal Contract
\* Draft" 6, and a document scoring 0 is excluded.
C13_DistinctIdTokens ==
  (call.fn = "findRelevantDocsByMetadata" /\ call.returned) =>
    /\ \A i \in 1..Len(call.docs) :
         MetadataPart(call, i)
           = 5 * DistinctTokenHits(call, call.docs[i].id)
             + WeightedFieldHits(call, call.docs[i])
    /\ ZeroExcludedAndExample(call)

\* C13 (amended): as stated, with the identifier hits counted per query
\* token, a token repeated in the query counting each time.
C13_MetadataScore ==
  (call.fn = "findRelevantDocsByMetadata" /\ call.returned) =>
    /\ \A i \in 1..Len(call.docs) :
         MetadataPart(call, i)
           = 5 * TokenHits(call, call.docs[i].id)
             + WeightedFieldHits(call, call.docs[i])
    /\ ZeroExcludedAndExample(call)

C13_Witness ==
  /\ call.fn = "findRelevantDocsByMetadata"
  /\ call.returned
  /\ call.query = ExampleQuery
  /\ call.docs = <<ExampleDocB, ExampleDocA>>
  /\ call.result = <<ExampleDocA>>
  /\ MetadataPart(call, 2) = 6

\* the k-th reaction of the endpoint made the attempt fail otherwise than
\* by a 404: another non-success status, a thrown exception, or a 200
\* without the answer field
FailedNot404(k) ==
  LET a == Attempt(modelCandidates[received[k].model], received[k].resp)
  IN  a.thrown /\ a.error.status # 404

\* the access token could not be obtained: the strategy failed before any
\* attempt
TokenFailed == saError # NoError /\ Posts("sa") = <<>>

\* the first POST after the service-account strategy is the first model
\* candidate under API-key auth, at the other API version
KeyStrategyStartsAtFirst(saPosts) ==
  /\ Posts("key") # <<>>
  /\ Posts("key")[1] = IoEvent("post", "key", modelCandidates[1])
  /\ LET first == CHOOSE n \in PostIndexes :
                     Cardinality({m \in PostIndexes : m < n}) = saPosts
     IN  /\ io[first].stage = "key"
         /\ EndpointUrl(io[first].stage, io[first].target).version
              # EndpointUrl("sa", io[first].target).version
         /\ EndpointUrl(io[first].stage, io[first].target).model
              = modelCandidates[1]

\* C14: under service-account auth a failure other than a 404 (another
\* non-success status, an exception, or no access token) ends the strategy:
\* no further candidate is posted under service-account auth, and with an
\* API key configured the next attempt is the first model candidate under
\* API-key auth at the other API version.
C14_SaFailureAbortsStrategy ==
  /\ \A k \in 1..Len(received) :
       (received[k].auth = "sa" /\ FailedNot404(k)) =>
         /\ Len(Posts("sa")) = received[k].model
         /\ \A l \in (k + 1)..Len(received) : received[l].auth = "key"
         /\ apiKey => KeyStrategyStartsAtFirst(received[k].model)
         /\ (apiKey /\ k < Len(received)) => received[k + 1].model = 1
  /\ TokenFailed =>
       /\ \A l \in 1..Len(received) : received[l].auth = "key"
       /\ apiKey => KeyStrategyStartsAtFirst(0)

C14_Witness ==
  /\ pc = "key_call"
  /\ apiKey
  /\ Len(received) = 2
  /\ received[1].resp.status = 404
  /\ received[2].auth = "sa"
  /\ received[2].resp.status = 500
  /\ Posts("key") = <<IoEvent("post", "key", modelCandidates[1])>>

\* the failure the service-account strategy ended with, read off the
\* history: no access token, the error of the last attempt, or, when that
\* was a 404 for the last candidate, the 'no compatible endpoint' error
SaFailureFromHistory ==
  IF received = <<>> THEN saError
  ELSE LET a == Attempt(modelCandidates[Last(received).model], Last(received).resp)
       IN  IF a.error.status = 404
           THEN Err("No compatible Generative API endpoint found", 0, FALSE)
           ELSE a.error

\* C15: without an API key no API-key attempt is ever issued, and when the
\* service-account strategy fails the caller's error is built from exactly
\* that failure: 'resource-exhausted' for a token-limit error,
\* 'invalid-argument' for another 400, else 'internal', the message
\* carrying the failure's message (the 'no compatible endpoint' error when
\* every candidate answered 404).
C15_NoKeySaFailureIsFinal ==
  ~apiKey =>
    /\ Posts("key") = <<>>
    /\ \A k \in 1..Len(received) : received[k].auth = "sa"
    /\ saError # NoError =>
         /\ pc = "done"
         /\ outcome.kind = "error"
         /\ received = <<>> =>
              saError.message \in {"Could not obtain access token from metadata",
                                   "getClient failed"}
         /\ saError = SaFailureFromHistory
         /\ IF saError.isTokenError
            THEN outcome.code = "resource-exhausted"
            ELSE /\ outcome.code = IF saError.status = 400
                                   THEN "invalid-argument" ELSE "internal"
                 /\ outcome.message[2] = saError.message

C15_Witness ==
  /\ pc = "done"
  /\ ~apiKey
  /\ Len(received) = Len(modelCandidates)
  /\ \A k \in 1..Len(received) : received[k].resp.status = 404
  /\ outcome.kind = "error"
  /\ outcome.code = "internal"
  /\ outcome.message[2] = "No compatible Generative API endpoint found"

\* the k-th reaction is a 200 whose payload lacks the answer field of the
\* model it was asked of (missing or empty)
ShapeMismatch(k) ==
  /\ received[k].resp.kind = "response"
  /\ received[k].resp.status = 200
  /\ ~AnswerResponse(received[k])

\* C16: a 200 response without the expected answer field never yields a
\* success payload, and is handled like a non-404 failure: under
\* service-account auth no further service-account attempt follows and the
\* API-key strategy takes over (its first candidate is posted when a key is
\* configured, otherwise the failure is final), and under API-key auth the
\* invocation ends with a classified error.
C16_ShapeMismatchIsFailure ==
  \A k \in 1..Len(received) :
    ShapeMismatch(k) =>
      /\ (k = Len(received) /\ pc = "done") =>
           /\ outcome.kind = "error"
           /\ outcome.code = "internal"
           /\ outcome.message[2] = "Unexpected API response format"
      /\ received[k].auth = "sa" =>
           /\ Len(Posts("sa")) = received[k].model
           /\ saError = Err("Unexpected API response format", 0, FALSE)
           /\ IF apiKey
              THEN /\ KeyStrategyStartsAtFirst(received[k].model)
                   /\ k = Len(received) => pc = "key_call"
              ELSE /\ k = Len(received)
                   /\ pc = "done"
      /\ received[k].auth = "key" =>
           /\ k = Len(received)
           /\ pc = "done"
           /\ Len(Posts("key")) = received[k].model

C16_Witness ==
  /\ pc = "key_call"
  /\ Len(received) = 1
  /\ ShapeMismatch(1)
  /\ received[1].auth = "sa"
  /\ received[1].resp.payload.text = AnswerT
  /\ apiKey

\* the POSTs issued, in issue order
AllPosts == SelectSeq(io, LAMBDA e : e.op = "post")

\* the k-th reaction of the endpoint is an answer the handler returns
Succeeded(k) ==
  ~Attempt(modelCandidates[received[k].model], received[k].resp).thrown

\* C17: generation attempts are strictly sequential: at most one POST is
\* unanswered at any time, the k-th reaction answers the k-th POST, a POST
\* is issued only after every earlier one was answered by a failure, every
\* service-account POST precedes every API-key POST, the n-th POST of a
\* strategy goes to the n-th model candidate, and no POST follows a
\* success.
C17_SequentialAttempts ==
  /\ Len(AllPosts) - Len(received) \in {0, 1}
  /\ \A k \in 1..Len(received) :
       /\ received[k].auth = AllPosts[k].stage
       /\ modelCandidates[received[k].model] = AllPosts[k].target
       /\ k < Len(AllPosts) => ~Succeeded(k)
       /\ Succeeded(k) => (k = Len(AllPosts) /\ pc = "done")
  /\ \A k, l \in 1..Len(AllPosts) :
       (k < l /\ AllPosts[l].stage = "sa") => AllPosts[k].stage = "sa"
  /\ \A auth \in {"sa", "key"} :
       \A n \in 1..Len(Posts(auth)) :
         /\ n <= Len(modelCandidates)
         /\ Posts(auth)[n].target = modelCandidates[n]

C17_Witness ==
  /\ pc = "key_call"
  /\ Len(AllPosts) = 4
  /\ Len(received) = 3
  /\ received[2].auth = "sa"
  /\ received[3].auth = "key"
  /\ received[3].resp.status = 404

\* both strategies failed: the service-account strategy ended in an error,
\* the API-key strategy was tried, and the invocation ended in an error
BothStrategiesFailed ==
  /\ pc = "done"
  /\ saError # NoError
  /\ Posts("key") # <<>>
  /\ outcome.kind = "error"

\* the error the API-key strategy ended with: the error of its last
\* attempt, or the 'no compatible endpoint' error after a 404 for the last
\* candidate
LastKeyError ==
  LET a == Attempt(modelCandidates[Last(received).model], Last(received).resp)
  IN  IF a.error.status = 404
      THEN Err("No compatible Generative API endpoint found with API key",
               0, FALSE)
      ELSE a.error

\* C18 (as stated): when both strategies fail, the caller gets an
\* 'internal' error whose message carries the last error's message.
C18_ExhaustionIsInternal ==
  BothStrategiesFailed =>
    /\ outcome.code = "internal"
    /\ outcome.message[2] = LastKeyError.message

\* C18 (amended): when both strategies fail, the caller's error is
\* classified from the last error of the API-key strategy: a token-limit 400
\* gives 'resource-exhausted', another 400 gives 'invalid-argument' with
\* the error's message attached, and every other error gives 'internal'
\* with the error's message attached.
C18_ExhaustionSurfacesLastError ==
  BothStrategiesFailed =>
    /\ Last(received).auth = "key"
    /\ Last(received).resp.status = 404
         => Last(received).model = Len(modelCandidates)
    /\ IF TokenLimitResponse(Last(received).resp)
       THEN outcome.code = "resource-exhausted"
       ELSE /\ outcome.code = IF Last(received).resp.status = 400
                              THEN "invalid-argument" ELSE "internal"
            /\ outcome.message[2] = LastKeyError.message
            /\ outcome.message[2] # ""

C18_Witness ==
  /\ BothStrategiesFailed
  /\ Len(received) = 4
  /\ Last(received).resp.kind = "exception"
  /\ outcome.code = "internal"
  /\ outcome.message = <<"AI processing failed: ", "fetch failed">>

(***************************************************************************)
(* Properties of the text fetches                                          *)
(***************************************************************************)

\* how many downloads of the document id were issued at a stage
FetchCount(stage, id) ==
  Cardinality({k \in 1..Len(io) :
                 io[k] = IoEvent("download", stage, id)})

\* C19: once the collection is enumerated (so the query had a keyword), the
\* scoring stage has issued exactly one download for every document with a
\* text pointer and none for a document without one; once the scorer has
\* returned, every selected document with a text pointer has exactly one
\* more download, issued for the context, and the others none.
C19_FetchCounts ==
  /\ pc \in {"invoke", "enumerate"} =>
       \A k \in 1..Len(io) : io[k].op # "download"
  /\ pc \notin {"invoke", "enumerate"} =>
       /\ (allDocuments # <<>> \/ Len(io) > 0) => keywords # <<>>
       /\ \A i \in 1..Len(allDocuments) :
            FetchCount("score", allDocuments[i].id)
              = IF Truthy(allDocuments[i].textStoragePath) THEN 1 ELSE 0
       /\ \A i \in 1..Len(allDocuments) :
            FetchCount("context", allDocuments[i].id)
              = IF /\ relevantDocs # NotReturned
                   /\ \E j \in 1..Len(relevantDocs) :
                        relevantDocs[j] = allDocuments[i]
                   /\ Truthy(allDocuments[i].textStoragePath)
                THEN 1 ELSE 0
       /\ \A k \in 1..Len(io) :
            io[k].op = "download" =>
              \E i \in 1..Len(allDocuments) : allDocuments[i].id = io[k].target

C19_Witness ==
  /\ pc = "context"
  /\ allDocuments = <<DocB, DocC>>
  /\ relevantDocs = <<DocB>>
  /\ FetchCount("score", DocC.id) = 1
  /\ FetchCount("score", DocB.id) = 1
  /\ FetchCount("context", DocB.id) = 1
  /\ FetchCount("context", DocC.id) = 0

\* '[No text path for <id>]'
NoTextPathSentinel(id) ==
  <<"[", "N", "o", " ", "t", "e", "x", "t", " ", "p", "a", "t", "h", " ",
    "f", "o", "r", " ">> \o id \o <<"]">>

\* '[Error fetching text for <id>]'
ErrorFetchingSentinel(id) ==
  <<"[", "E", "r", "r", "o", "r", " ", "f", "e", "t", "c", "h", "i", "n", "g",
    " ", "t", "e", "x", "t", " ", "f", "o", "r", " ">> \o id \o <<"]">>

\* what a successful download of the document's text decodes to
StoredText(doc) ==
  LET b == Bucket(doc.textStoragePath)
  IN  IF includes(b.utf16le, <<"e">>) \/ includes(b.utf16le, <<"t">>)
      THEN b.utf16le ELSE b.utf8

\* a text the fetcher may return for the document: the no-path sentinel
\* without a pointer, else the stored text or the error sentinel
FetcherResult(doc, text) ==
  IF Truthy(doc.textStoragePath)
  THEN text \in {StoredText(doc), ErrorFetchingSentinel(doc.id)}
  ELSE text = NoTextPathSentinel(doc.id)

\* the generation stage was entered: the access token was requested
GenerationReached ==
  \E k \in 1..Len(io) : io[k].op = "getAccessToken"

\* C20: every settled fetch returned a text, never an exception: the
\* no-path sentinel for a document without a text pointer (and no download
\* was issued for it), else the stored text or the error sentinel; and
\* whatever fetches failed, an invocation in which some document scored
\* above 0 goes on to the context stage and then the generation stage.
C20_FetchNeverThrows ==
  /\ pc \notin {"invoke", "enumerate"} =>
       \A i \in 1..Len(allDocuments) :
         /\ (i \notin pending /\ Truthy(allDocuments[i].textStoragePath))
              => FetcherResult(allDocuments[i], texts[i])
         /\ ~Truthy(allDocuments[i].textStoragePath)
              => \A k \in 1..Len(io) :
                   io[k].op = "download" => io[k].target # allDocuments[i].id
  /\ (relevantDocs # NotReturned /\ relevantDocs # <<>>) =>
       /\ \A i \in 1..Len(relevantDocs) :
            i \notin ctxPending => FetcherResult(relevantDocs[i], docTexts[i])
       /\ pc # "context" => GenerationReached
  /\ (pc \notin {"invoke", "enumerate", "scoring"} /\ allDocuments # <<>>) =>
       /\ relevantDocs # NotReturned
       /\ (\E i \in 1..Len(allDocuments) :
             ScoreDoc(allDocuments[i], keywords, texts[i]).score > 0)
            => (relevantDocs # <<>> /\ (pc = "done" => GenerationReached))

C20_Witness ==
  /\ pc = "sa_token"
  /\ allDocuments = <<DocA, DocB>>
  /\ texts[2] = ErrorFetchingSentinel(DocB.id)
  /\ relevantDocs = <<DocA, DocB>>
  /\ docTexts[1] = NoTextPathSentinel(DocA.id)
  /\ docTexts[2] = ErrorFetchingSentinel(DocB.id)
  /\ GenerationReached

(***************************************************************************)
(* Properties of selection and prompt assembly                             *)
(***************************************************************************)

\* the text is one of the fetcher's two sentinels for the document
IsSentinel(doc, text) ==
  text \in {NoTextPathSentinel(doc.id), ErrorFetchingSentinel(doc.id)}

\* a sentinel returned by the scoring fetch of document i adds nothing to
\* its score: the score is the identifier and field part alone
SentinelsUnscored(c) ==
  \A i \in 1..Len(c.docs) :
    (Truthy(c.docs[i].textStoragePath) /\ IsSentinel(c.docs[i], c.texts[i])) =>
      ScoreIn(c, i) = 5 * TokenHits(c, c.docs[i].id)
                      + WeightedFieldHits(c, c.docs[i])

\* the scorer's view of a prompt call: query, documents, scoring texts
ScorerView(c) ==
  [query |-> c.query, docs |-> PromptDocs(c.kinds),
   texts |-> ScoringTexts(c.kinds)]

\* the position in the enumeration of the j-th returned source
SourceIndex(c, j) ==
  CHOOSE i \in 1..Len(c.kinds) : PromptDocs(c.kinds)[i].id = c.sources[j]

\* the j-th selected document
SelectedDoc(c, j) == PromptDocs(c.kinds)[SourceIndex(c, j)]

\* the context text of the j-th selected document
SelectedText(c, j) == ContextTexts(c.kinds, c.ok)[SourceIndex(c, j)]

\* what the per-document budget leaves after the j-th selected document's
\* metadata header
BudgetAfterHeader(c, j) ==
  TokensPerDoc(Len(c.sources)) - estimateTokens(MetadataHeader(SelectedDoc(c, j)))

\* C21 (as stated): a sentinel is never keyword-scored, and a selected
\* document whose context fetch returned a sentinel has that sentinel in
\* its context block.
C21_SentinelUnscoredAlwaysSent ==
  (call.fn = "assemblePrompt" /\ call.returned) =>
    /\ SentinelsUnscored(ScorerView(call))
    /\ \A j \in 1..Len(call.sources) :
         IsSentinel(SelectedDoc(call, j), SelectedText(call, j))
           => Occurs(call.parts[j], SelectedText(call, j))

\* C21 (amended): a sentinel is never keyword-scored; a selected document
\* whose context fetch returned a sentinel has the sentinel in its context
\* block when the budget left after its metadata header is at least
\* MIN_TOKENS_PER_DOC and at least the sentinel's estimated token count, and
\* has the size notice in place of it when that budget is below
\* MIN_TOKENS_PER_DOC.
C21_SentinelUnscoredSentIfRoom ==
  (call.fn = "assemblePrompt" /\ call.returned) =>
    /\ SentinelsUnscored(ScorerView(call))
    /\ \A j \in 1..Len(call.sources) :
         IsSentinel(SelectedDoc(call, j), SelectedText(call, j)) =>
           /\ ( /\ BudgetAfterHeader(call, j) >= MIN_TOKENS_PER_DOC
                /\ BudgetAfterHeader(call, j)
                     >= estimateTokens(SelectedText(call, j)) )
                => Occurs(call.parts[j], SelectedText(call, j))
           /\ BudgetAfterHeader(call, j) < MIN_TOKENS_PER_DOC
                => /\ ~Occurs(call.parts[j], SelectedText(call, j))
                   /\ Occurs(call.parts[j], SizeNotice)

C21_Witness ==
  /\ call.fn = "assemblePrompt"
  /\ call.returned
  /\ call.kinds = <<"failing">>
  /\ Truthy(SelectedDoc(call, 1).textStoragePath)
  /\ ScorerView(call).texts[1] = ErrorFetchingSentinel(SelectedDoc(call, 1).id)
  /\ Len(Keywords(call.query)) = 2
  /\ Occurs(toLowerCase(ScorerView(call).texts[1]), Keywords(call.query)[2])
  /\ ScoreIn(ScorerView(call), 1) = 1
  /\ call.sources = <<SelectedDoc(call, 1).id>>
  /\ Occurs(call.parts[1], ErrorFetchingSentinel(SelectedDoc(call, 1).id))

(***************************************************************************)
(* Properties of content scoring and ranking in the handler                *)
(***************************************************************************)

\* the scoring fetch of document i has settled with a text that is not a
\* failure sentinel
ScoringFetchSucceeded(i) ==
  /\ pc \notin {"invoke", "enumerate"}
  /\ i \in 1..Len(allDocuments)
  /\ Truthy(allDocuments[i].textStoragePath)
  /\ i \notin pending
  /\ ~IsSentinel(allDocuments[i], texts[i])

\* C22: a document with a text pointer whose fetched text is not a failure
\* sentinel scores its identifier and field part plus 2 for each query
\* token that is a substring of the lower-cased text, also when the text
\* begins with '['.
C22_RealTextScored ==
  \A i \in 1..Len(allDocuments) :
    ScoringFetchSucceeded(i) =>
      ScoreDoc(allDocuments[i], keywords, texts[i]).score
        = 5 * TokenHits(request, allDocuments[i].id)
          + WeightedFieldHits(request, allDocuments[i])
          + 2 * TokenHits(request, texts[i])

\* the score of the i-th enumerated document under the fetched texts txt
ScoreAt(txt, i) == ScoreDoc(allDocuments[i], keywords, txt[i]).score

\* the other way the scoring fetch of document i could have settled
OtherOutcome(i) ==
  IF texts[i] = ErrorFetchingSentinel(allDocuments[i].id)
  THEN StoredText(allDocuments[i])
  ELSE ErrorFetchingSentinel(allDocuments[i].id)

\* d is in the list
InList(list, d) == \E k \in 1..Len(list) : list[k] = d

-----------------------------------------------------------------------------
(* Properties of the assembled prompt                                      *)

\* C24: for every query and every 1 to 5 selected documents, the estimated
\* token count of the final prompt is at most MAX_INPUT_TOKENS.
C24_PromptWithinCeiling ==
  (call.fn = "assemblePrompt" /\ call.returned /\ call.sources # <<>>) =>
    estimateTokens(call.prompt) <= MAX_INPUT_TOKENS

-----------------------------------------------------------------------------
(* Properties of the truncator's middle cut                                *)

\* the trimmed text of a truncator call
CleanText(c) == trim(c.text)

\* the number of characters taken from each end of the trimmed text
SnippetChars(c) == (RemainingTokens(c) \div 2) * CHARS_PER_TOKEN

\* the first and the last SnippetChars(c) characters of the trimmed text
HeadChars(c) == SubSeq(CleanText(c), 1, SnippetChars(c))
TailChars(c) ==
  SubSeq(CleanText(c), Len(CleanText(c)) - SnippetChars(c) + 1, Len(CleanText(c)))

\* the header leaves at least the floor and the trimmed text does not fit
MiddleCut(c) ==
  /\ c.fn = "truncateDocumentText"
  /\ c.returned
  /\ RemainingTokens(c) >= MIN_TOKENS_PER_DOC
  /\ estimateTokens(CleanText(c)) > RemainingTokens(c)

\* the header leaves less than the floor
BelowFloor(c) ==
  /\ c.fn = "truncateDocumentText"
  /\ c.returned
  /\ RemainingTokens(c) < MIN_TOKENS_PER_DOC

\* how many times the middle marker occurs in s
MarkerCount(s) ==
  Cardinality({i \in 0..(Len(s) - Len(MiddleMarker)) :
                 s[i + 1] = MiddleMarker[1]
                 /\ SubSeq(s, i + 1, i + Len(MiddleMarker)) = MiddleMarker})

\* C25 (as stated): on a middle cut the output is header + head + marker +
\* tail with head the first and tail the last floor(remaining/2) * 4
\* characters of the trimmed text, the marker occurs exactly once, and head
\* and tail do not overlap; below the floor the output is the header plus
\* the size notice.
C25_HeadMarkerTail ==
  /\ MiddleCut(call) =>
       /\ call.result
            = MetadataHeader(call.doc) \o HeadChars(call) \o MiddleMarker \o TailChars(call)
       /\ MarkerCount(call.result) = 1
       /\ 2 * SnippetChars(call) < Len(CleanText(call))
  /\ BelowFloor(call) => call.result = MetadataHeader(call.doc) \o SizeNotice

\* C25 (amended): on a middle cut the output is header + head + marker +
\* tail with head the first and tail the last floor(remaining/2) * 4
\* characters of the trimmed text, each with the white space at its own
\* ends removed; the marker occurs once more than it occurs in the head and
\* the tail themselves; head and tail do not overlap; below the floor the
\* output is the header plus the size notice.
C25_TrimmedHeadMarkerTail ==
  /\ MiddleCut(call) =>
       /\ call.result
            = MetadataHeader(call.doc) \o trim(HeadChars(call)) \o MiddleMarker
                \o trim(TailChars(call))
       /\ MarkerCount(call.result)
            = 1 + MarkerCount(trim(HeadChars(call))) + MarkerCount(trim(TailChars(call)))
       /\ 2 * SnippetChars(call) < Len(CleanText(call))
  /\ BelowFloor(call) => call.result = MetadataHeader(call.doc) \o SizeNotice

C25_Witness ==
  /\ MiddleCut(call)
  /\ Len(trim(TailChars(call))) < SnippetChars(call)
  /\ Occurs(call.result, trim(HeadChars(call)) \o MiddleMarker \o trim(TailChars(call)))
  /\ ~Occurs(call.result, SizeNotice)

-----------------------------------------------------------------------------
(* Properties of the classification of non-success responses               *)

\* the lower-cased body contains one of the four hint words
HintInBody(resp) ==
  \E h \in { <<"t", "o", "k", "e", "n">>, <<"t", "o", "o", " ", "l", "o", "n", "g">>,
              <<"m", "a", "x">>, <<"l", "i", "m", "i", "t">> } :
    Occurs(toLowerCase(resp.body), h)

\* the k-th reaction is a non-success response
NonSuccess(k) ==
  received[k].resp.kind = "response" /\ received[k].resp.status # 200

\* the k-th reaction is the one the invocation ended on: the last one,
\* answered to an API-key attempt or while no API key is configured
Surfaced(k) ==
  /\ pc = "done"
  /\ k = Len(received)
  /\ (received[k].auth = "key" \/ ~apiKey)

\* C26: a non-success response is a token-limit failure exactly when its
\* status is 400 and its lower-cased body contains a hint word; with any
\* other status it never surfaces as 'resource-exhausted', a 404 for a
\* candidate that is not the last is followed by the next candidate even
\* with hint words in its body, and a surfaced 400 without a hint word
\* gives 'invalid-argument'.
C26_TokenLimitIffStatus400AndHint ==
  \A k \in 1..Len(received) :
    NonSuccess(k) =>
      LET r == received[k]
      IN  /\ tryUrl(r.resp).thrown
          /\ tryUrl(r.resp).error.isTokenError
               <=> (r.resp.status = 400 /\ HintInBody(r.resp))
          /\ Surfaced(k) =>
               /\ outcome.kind = "error"
               /\ outcome.code = "resource-exhausted"
                    <=> (r.resp.status = 400 /\ HintInBody(r.resp))
               /\ (r.resp.status = 400 /\ ~HintInBody(r.resp))
                    => outcome.code = "invalid-argument"
          /\ (r.resp.status = 404 /\ r.model < Len(modelCandidates)) =>
               /\ Len(Posts(r.auth)) > r.model
               /\ Posts(r.auth)[r.model + 1].target = modelCandidates[r.model + 1]

C26_Witness ==
  /\ pc = "done"
  /\ Len(received) = 3
  /\ received[1].resp.status = 404
  /\ HintInBody(received[1].resp)
  /\ received[2].auth = "sa"
  /\ received[2].resp.status = 400
  /\ HintInBody(received[2].resp)
  /\ received[3].auth = "key"
  /\ received[3].resp.status = 500
  /\ HintInBody(received[3].resp)
  /\ outcome.kind = "error"
  /\ outcome.code = "internal"

-----------------------------------------------------------------------------
(* Properties of the outcome after a failed service-account strategy       *)

\* an API key is configured and the service-account strategy has failed
FellBackToKey == apiKey /\ saError # NoError

\* C27: with an API key configured, once the service-account strategy has
\* failed, whatever the failure, the first model candidate is posted under
\* API-key auth, and the outcome is that of the API-key strategy alone:
\* success with the answer of the API-key attempt that answered, else the
\* code of the last API-key error (token-limit: 'resource-exhausted',
\* another 400: 'invalid-argument', anything else, a 404 for every candidate
\* included: 'internal'), the service-account error appearing nowhere.
C27_KeyStrategyDecides ==
  FellBackToKey =>
    /\ pc \in {"key_call", "done"}
    /\ Posts("key") # <<>>
    /\ Posts("key")[1] = IoEvent("post", "key", modelCandidates[1])
    /\ pc = "done" =>
         /\ Last(received).auth = "key"
         /\ IF AnswerResponse(Last(received))
            THEN /\ outcome.kind = "success"
                 /\ outcome.answer
                      = answerText(modelCandidates[Last(received).model],
                                   Last(received).resp.payload)
            ELSE /\ outcome.kind = "error"
                 /\ outcome.code =
                      IF TokenLimitResponse(Last(received).resp)
                      THEN "resource-exhausted"
                      ELSE IF Last(received).resp.status = 400
                      THEN "invalid-argument"
                      ELSE "internal"
                 /\ ~TokenLimitResponse(Last(received).resp)
                      => outcome.message[2] = LastKeyError.message
                 /\ Last(received).resp.status = 404
                      => /\ Len(Posts("key")) = Len(modelCandidates)
                         /\ \A k \in 1..Len(received) :
                              received[k].auth = "key"
                                => received[k].resp.status = 404

C27_Witness ==
  /\ FellBackToKey
  /\ pc = "done"
  /\ saError.isTokenError
  /\ Len(received) = 3
  /\ received[1].auth = "sa"
  /\ TokenLimitResponse(received[1].resp)
  /\ received[2].resp.status = 404
  /\ received[3].auth = "key"
  /\ received[3].resp.status = 400
  /\ ~TokenLimitResponse(received[3].resp)
  /\ outcome.kind = "error"
  /\ outcome.code = "invalid-argument"

-----------------------------------------------------------------------------
(* Properties of the returned sources and of the document store            *)

\* the separator between two context blocks
BlockSeparator == <<"\n", "\n", "-", "-", "-", "\n", "\n">>

\* the opening of the context block of a document: its label and its
\* metadata header
BlockOpening(doc) ==
  <<"D", "o", "c", "u", "m", "e", "n", "t", " ">> \o doc.id \o <<":", "\n">>
  \o MetadataHeader(doc)

\* the positions at which k starts in s
Positions(s, k) ==
  {i \in 1..(Len(s) - Len(k) + 1) :
     s[i] = k[1] /\ SubSeq(s, i, i + Len(k) - 1) = k}

\* the invocation succeeded on an answer of the generation endpoint
GeneratedSuccess ==
  pc = "done" /\ outcome.kind = "success" /\ received # <<>>

\* C28: on a success that went through the generation endpoint the sources
\* are the scorer's selected documents in ranking order, each a stored
\* record as enumerated, and the prompt holds exactly one context block per
\* source, in the same order; and every request the invocation makes to
\* the document store or the object store is a read.
C28_SourcesAreSelectedDocs ==
  /\ GeneratedSuccess =>
       /\ outcome.sources = RankDocs(ScoredDocs(keywords, allDocuments, texts))
       /\ outcome.sources # <<>>
       /\ \A j \in 1..Len(outcome.sources) :
            /\ InList(allDocuments, outcome.sources[j])
            /\ Cardinality(Positions(prompt, BlockOpening(outcome.sources[j]))) = 1
       /\ \A j \in 1..(Len(outcome.sources) - 1) :
            \A a \in Positions(prompt, BlockOpening(outcome.sources[j])) :
              \A b \in Positions(prompt, BlockOpening(outcome.sources[j + 1])) :
                a < b
       /\ Cardinality(Positions(prompt, BlockSeparator))
            = Len(outcome.sources) - 1
  /\ \A k \in 1..Len(io) :
       /\ io[k].op \in {"docs.get", "download", "getAccessToken", "post"}
       /\ io[k].op = "post" => io[k].target \in {modelCandidates[n] : n \in 1..Len(modelCandidates)}

C28_Witness ==
  /\ GeneratedSuccess
  /\ Last(received).auth = "key"
  /\ allDocuments = <<DocB, DocC>>
  /\ outcome.sources = <<DocB, DocC>>
  /\ \E k \in 1..Len(io) : io[k].op = "download" /\ io[k].stage = "context"

=============================================================================
